---- MODULE Spec2Model ----
(***************************************************************************)
(* Model of src/services/geminiService.ts:                                 *)
(*   safeParseJSON  (strict decode, then truncation repair)                *)
(*   cleanLatex     (ordered chain of global regex replacements)           *)
(*   extractQuestions, generateQuestionsFromSlides, generateStudyNotes,    *)
(*   generateWrittenQuestions  (the request loops that call the helpers    *)
(*   and hand batches of records to onBatch)                               *)
(* A JavaScript string is a sequence of one-character strings.  A          *)
(* JavaScript value is a record [t |-> type tag, v |-> payload], the       *)
(* payload always being a sequence so that any two values can be compared. *)
(***************************************************************************)
EXTENDS Integers, Sequences, FiniteSets, TLC

VARIABLES
    fn,        \* which helper the caller invokes: "safeParseJSON" or "cleanLatex"
    arg,       \* the argument of the call, a JavaScript value
    family,    \* how the caller's input was produced (label of the input family)
    intended,  \* the value the producer of the input meant to send
    pc,        \* "call" before the helper ran, "returned" after it
    ret,       \* completion of the last call: [kind |-> "return"/"throw", v |-> value]
    applied,   \* results of the successive cleanLatex applications, oldest first
    op,            \* the generation operation that runs
    examType,      \* its examType parameter
    gpc,           \* "loop" at the head of its loop, "await" while generateContent
                   \* is pending, "done" once its promise resolved, "raised" once
                   \* its promise rejected
    aborted,       \* signal.aborted
    hasMore,       \* let hasMore
    retryCount,    \* let retryCount
    iteration,     \* let iteration; for generateQuestionsFromSlides the number of
                   \* entries of batches the for loop has taken
    allQuestions,  \* allQuestions.length, allExtracted.length
    response,      \* response.text of the last settled request
    batch,         \* the argument of the onBatch call of the last settled request
    streak,        \* the unproductive rounds of extractQuestions since its last
                   \* non-empty batch, as its caller observes them
    step,                    \* App: AppStep
    uploadMode,              \* App: 'extract' | 'generate' | 'notes' | 'written'
    questions,               \* App: the questions list
    notes,                   \* App: the notes list
    writtenQuestions,        \* App: the writtenQuestions list
    currentQIndex,           \* App: index of the question on display
    userAnswers,             \* App: Record<number, string>, as a function
    answerTimes,             \* App: Record<number, number>, as a function
    timeSpent,               \* App: seconds on the question on display
    isProcessing,            \* App
    isBackgroundExtracting,  \* App
    uploads,                 \* the calls of handleFileUpload so far, each with its
                             \* closure: uploadMode, controller, hasGeneratedData
    now,                     \* Date.now()
    messages,                \* AIChat: the message list
    isLoading,               \* AIChat
    chatSession,             \* AIChat: chatSession.current, "pending" until the
                             \* effect ran initChat
    streams                  \* AIChat: the calls of streamResponse that have not ended

helperVars == <<fn, arg, family, intended, pc, ret, applied>>
genVars ==
    <<op, examType, gpc, aborted, hasMore, retryCount, iteration, allQuestions, response, batch,
      streak>>
appVars ==
    <<step, uploadMode, questions, notes, writtenQuestions, currentQIndex, userAnswers,
      answerTimes, timeSpent, isProcessing, isBackgroundExtracting, uploads, now>>
chatVars == <<messages, isLoading, chatSession, streams>>
vars == <<helperVars, genVars, appVars, chatVars>>

----------------------------------------------------------------------------
(* Characters *)

BS == "\\"
QUOTE == "\""
TAB == "\t"
LF == "\n"
CR == "\r"
FF == "\f"
BACKSPACE == "<U+0008>"

Digits == {"0", "1", "2", "3", "4", "5", "6", "7", "8", "9"}
Lower == {"a", "b", "c", "d", "e", "f", "g", "h", "i", "j", "k", "l", "m",
          "n", "o", "p", "q", "r", "s", "t", "u", "v", "w", "x", "y", "z"}
Upper == {"A", "B", "C", "D", "E", "F", "G", "H", "I", "J", "K", "L", "M",
          "N", "O", "P", "Q", "R", "S", "T", "U", "V", "W", "X", "Y", "Z"}
HexDigits == Digits \cup {"a", "b", "c", "d", "e", "f", "A", "B", "C", "D", "E", "F"}

DigitVal(c) ==
    CASE c = "0" -> 0 [] c = "1" -> 1 [] c = "2" -> 2 [] c = "3" -> 3
      [] c = "4" -> 4 [] c = "5" -> 5 [] c = "6" -> 6 [] c = "7" -> 7
      [] c = "8" -> 8 [] c = "9" -> 9

----------------------------------------------------------------------------
(* JavaScript values *)

Str(s) == [t |-> "string", v |-> s]
Num(lexeme) == [t |-> "number", v |-> lexeme]
Arr(items) == [t |-> "array", v |-> items]
Obj(members) == [t |-> "object", v |-> members]
Null == [t |-> "null", v |-> <<>>]
Undefined == [t |-> "undefined", v |-> <<>>]
True == [t |-> "boolean", v |-> <<"t", "r", "u", "e">>]
False == [t |-> "boolean", v |-> <<"f", "a", "l", "s", "e">>]

Return(value) == [kind |-> "return", v |-> value]
Throw(error) == [kind |-> "throw", v |-> Str(error)]
NoCompletion == [kind |-> "none", v |-> Undefined]

----------------------------------------------------------------------------
(* String.prototype helpers, with JavaScript's 0-based indices *)

\* s.substring(start)
SubstringFrom(s, start) == SubSeq(s, start + 1, Len(s))

\* s.substring(0, end)
SubstringTo(s, end) == SubSeq(s, 1, end)

\* does pat occur in s at the 1-based position i
OccursAt(s, pat, i) ==
    /\ i >= 1
    /\ i + Len(pat) - 1 <= Len(s)
    /\ \A k \in 1..Len(pat) : s[i + k - 1] = pat[k]

\* s.indexOf(pat): 0-based index of the first occurrence, -1 when there is none
IndexOf(s, pat) ==
    LET hits == {i \in 1..Len(s) : OccursAt(s, pat, i)}
    IN IF hits = {} THEN -1 ELSE (CHOOSE i \in hits : \A j \in hits : i <= j) - 1

\* s.lastIndexOf(pat): 0-based index of the last occurrence, -1 when there is none
LastIndexOf(s, pat) ==
    LET hits == {i \in 1..Len(s) : OccursAt(s, pat, i)}
    IN IF hits = {} THEN -1 ELSE (CHOOSE i \in hits : \A j \in hits : i >= j) - 1

\* WhiteSpace and LineTerminator code points of the model's alphabet
IsJsSpace(c) == c \in {" ", TAB, LF, CR, FF}

RECURSIVE TrimStart(_)
TrimStart(s) == IF s # <<>> /\ IsJsSpace(Head(s)) THEN TrimStart(Tail(s)) ELSE s

RECURSIVE TrimEnd(_)
TrimEnd(s) ==
    IF s # <<>> /\ IsJsSpace(s[Len(s)]) THEN TrimEnd(SubSeq(s, 1, Len(s) - 1)) ELSE s

\* s.trim()
Trim(s) == TrimEnd(TrimStart(s))

----------------------------------------------------------------------------
(* JSON.parse (ECMA-404 grammar) *)

IsJsonWs(c) == c \in {" ", TAB, LF, CR}

RECURSIVE SkipJsonWs(_, _)
SkipJsonWs(s, i) == IF i <= Len(s) /\ IsJsonWs(s[i]) THEN SkipJsonWs(s, i + 1) ELSE i

\* result of a parsing step: the value read and the position after it
ParseFail == [ok |-> FALSE, v |-> Undefined, next |-> 0]
ParseOk(value, next) == [ok |-> TRUE, v |-> value, next |-> next]

RECURSIVE SkipDigits(_, _)
SkipDigits(s, i) == IF i <= Len(s) /\ s[i] \in Digits THEN SkipDigits(s, i + 1) ELSE i

\* number: -? (0 | [1-9][0-9]*) (. [0-9]+)? ([eE] [+-]? [0-9]+)?
\* the value is kept as its lexeme
ParseNumber(s, i) ==
    LET i1 == IF i <= Len(s) /\ s[i] = "-" THEN i + 1 ELSE i
        i2 == IF i1 <= Len(s) /\ s[i1] = "0" THEN i1 + 1 ELSE SkipDigits(s, i1)
        fracEnd == IF i2 + 1 <= Len(s) /\ s[i2] = "." THEN SkipDigits(s, i2 + 1) ELSE i2
        fracBad == i2 <= Len(s) /\ s[i2] = "." /\ fracEnd <= i2 + 1
        i3 == IF fracEnd > i2 + 1 THEN fracEnd ELSE i2
        hasExp == i3 <= Len(s) /\ s[i3] \in {"e", "E"}
        e1 == IF hasExp /\ i3 + 1 <= Len(s) /\ s[i3 + 1] \in {"+", "-"}
              THEN i3 + 2 ELSE i3 + 1
        expEnd == IF hasExp THEN SkipDigits(s, e1) ELSE i3
        expBad == hasExp /\ expEnd = e1
    IN IF i2 = i1 \/ fracBad \/ expBad THEN ParseFail
       ELSE ParseOk(Num(SubSeq(s, i, expEnd - 1)), expEnd)

\* the character a two-character escape stands for
Unescape(c) ==
    CASE c = QUOTE -> QUOTE [] c = BS -> BS [] c = "/" -> "/"
      [] c = "b" -> BACKSPACE [] c = "f" -> FF [] c = "n" -> LF
      [] c = "r" -> CR [] c = "t" -> TAB

\* string body, from the position after the opening quote
RECURSIVE ParseChars(_, _, _)
ParseChars(s, i, acc) ==
    IF i > Len(s) THEN ParseFail
    ELSE IF s[i] = QUOTE THEN ParseOk(Str(acc), i + 1)
    ELSE IF s[i] \in {TAB, LF, CR, FF, BACKSPACE} THEN ParseFail
    ELSE IF s[i] # BS THEN ParseChars(s, i + 1, Append(acc, s[i]))
    ELSE IF i + 1 > Len(s) THEN ParseFail
    ELSE IF s[i + 1] \in {QUOTE, BS, "/", "b", "f", "n", "r", "t"}
         THEN ParseChars(s, i + 2, Append(acc, Unescape(s[i + 1])))
    ELSE IF /\ s[i + 1] = "u"
            /\ i + 5 <= Len(s)
            /\ \A k \in 2..5 : s[i + k] \in HexDigits
         THEN ParseChars(s, i + 6,
                         Append(acc, "\\u" \o s[i + 2] \o s[i + 3] \o s[i + 4] \o s[i + 5]))
    ELSE ParseFail

ParseLiteral(s, i, word, value) ==
    IF OccursAt(s, word, i) THEN ParseOk(value, i + Len(word)) ELSE ParseFail

\* canonical array index: "0" or a decimal without leading zero (below 2^32 - 1)
IsIndexKey(k) ==
    /\ k # <<>>
    /\ Len(k) <= 9
    /\ \A i \in 1..Len(k) : k[i] \in Digits
    /\ (Len(k) > 1 => k[1] # "0")

RECURSIVE KeyNum(_)
KeyNum(k) == IF k = <<>> THEN 0 ELSE 10 * KeyNum(SubSeq(k, 1, Len(k) - 1)) + DigitVal(k[Len(k)])

\* CreateDataProperty on an ordinary object whose own properties are kept in
\* enumeration order: index keys ascending first, then the others in insertion
\* order; a key already present keeps its place and takes the new value
ObjPut(members, k, value) ==
    IF \E i \in 1..Len(members) : members[i].k = k
    THEN [i \in 1..Len(members) |->
            IF members[i].k = k THEN [k |-> k, v |-> value] ELSE members[i]]
    ELSE IF IsIndexKey(k)
    THEN LET before == {i \in 1..Len(members) :
                            IsIndexKey(members[i].k) /\ KeyNum(members[i].k) < KeyNum(k)}
             n == Cardinality(before)
         IN SubSeq(members, 1, n) \o <<[k |-> k, v |-> value]>>
                \o SubSeq(members, n + 1, Len(members))
    ELSE Append(members, [k |-> k, v |-> value])

RECURSIVE ParseValue(_, _), ParseElements(_, _, _), ParseMembers(_, _, _)

\* value starting at position i (insignificant whitespace already skipped)
ParseValue(s, i) ==
    IF i > Len(s) THEN ParseFail
    ELSE IF s[i] = "[" THEN
        LET j == SkipJsonWs(s, i + 1)
        IN IF j <= Len(s) /\ s[j] = "]" THEN ParseOk(Arr(<<>>), j + 1)
           ELSE ParseElements(s, j, <<>>)
    ELSE IF s[i] = "{" THEN
        LET j == SkipJsonWs(s, i + 1)
        IN IF j <= Len(s) /\ s[j] = "}" THEN ParseOk(Obj(<<>>), j + 1)
           ELSE ParseMembers(s, j, <<>>)
    ELSE IF s[i] = QUOTE THEN ParseChars(s, i + 1, <<>>)
    ELSE IF s[i] = "-" \/ s[i] \in Digits THEN ParseNumber(s, i)
    ELSE IF s[i] = "t" THEN ParseLiteral(s, i, <<"t", "r", "u", "e">>, True)
    ELSE IF s[i] = "f" THEN ParseLiteral(s, i, <<"f", "a", "l", "s", "e">>, False)
    ELSE IF s[i] = "n" THEN ParseLiteral(s, i, <<"n", "u", "l", "l">>, Null)
    ELSE ParseFail

\* elements of an array, from the first character of an element
ParseElements(s, i, acc) ==
    LET e == ParseValue(s, i)
        j == SkipJsonWs(s, e.next)
    IN IF ~e.ok \/ j > Len(s) THEN ParseFail
       ELSE IF s[j] = "]" THEN ParseOk(Arr(Append(acc, e.v)), j + 1)
       ELSE IF s[j] = "," THEN ParseElements(s, SkipJsonWs(s, j + 1), Append(acc, e.v))
       ELSE ParseFail

\* members of an object, from the opening quote of a key
ParseMembers(s, i, acc) ==
    IF i > Len(s) \/ s[i] # QUOTE THEN ParseFail
    ELSE LET key == ParseChars(s, i + 1, <<>>)
             c == SkipJsonWs(s, key.next)
         IN IF ~key.ok \/ c > Len(s) \/ s[c] # ":" THEN ParseFail
            ELSE LET m == ParseValue(s, SkipJsonWs(s, c + 1))
                     j == SkipJsonWs(s, m.next)
                 IN IF ~m.ok \/ j > Len(s) THEN ParseFail
                    ELSE IF s[j] = "}"
                         THEN ParseOk(Obj(ObjPut(acc, key.v.v, m.v)), j + 1)
                    ELSE IF s[j] = ","
                         THEN ParseMembers(s, SkipJsonWs(s, j + 1),
                                           ObjPut(acc, key.v.v, m.v))
                    ELSE ParseFail

\* JSON.parse(text): [ok |-> TRUE, v |-> value], or ok = FALSE for a SyntaxError
JSONParse(text) ==
    LET r == ParseValue(text, SkipJsonWs(text, 1))
    IN IF r.ok /\ SkipJsonWs(text, r.next) = Len(text) + 1
       THEN [ok |-> TRUE, v |-> r.v]
       ELSE [ok |-> FALSE, v |-> Undefined]

\* Object.values(o) of a parsed object
ObjectValues(o) == [i \in 1..Len(o.v) |-> o.v[i].v]

----------------------------------------------------------------------------
(* safeParseJSON *)

EmptyArray == Arr(<<>>)

\* a variant of FindArray that looks at the first value only
FindArray_FirstValue(values) ==
    IF values # <<>> /\ values[1].t = "array" THEN values[1] ELSE Undefined

\* a variant of FindArray that passes over an empty array
FindArray_NonEmpty(values) ==
    LET hits == {i \in 1..Len(values) : values[i].t = "array" /\ values[i].v # <<>>}
    IN IF hits = {} THEN Undefined
       ELSE values[CHOOSE i \in hits : \A j \in hits : i <= j]

\* values.find(v => Array.isArray(v)): the first array among the values
FindArray(values) ==
    LET hits == {i \in 1..Len(values) : values[i].t = "array"}
    IN IF hits = {} THEN Undefined
       ELSE values[CHOOSE i \in hits : \A j \in hits : i <= j]

\* a variant of FirstBracketCut that keeps what stands before the first '['
FirstBracketCut_KeepAll(jsonString) == Trim(jsonString)

\* the text the catch block decodes: trimmed, cut before the first '[' and
\* after the last '}' that a ',' follows, closed by ']'
FirstBracketCut(jsonString) ==
    LET cleaned == Trim(jsonString)
        firstBracket == IndexOf(cleaned, <<"[">>)
    IN IF firstBracket # -1 THEN SubstringFrom(cleaned, firstBracket) ELSE cleaned

\* a variant of LastObjectEnd that takes the first '},' instead of the last
LastObjectEnd_First(jsonString) == IndexOf(FirstBracketCut(jsonString), <<"}", ",">>)

\* a variant of LastObjectEnd that takes the last '}' whatever follows it
LastObjectEnd_AnyBrace(jsonString) == LastIndexOf(FirstBracketCut(jsonString), <<"}">>)

LastObjectEnd(jsonString) == LastIndexOf(FirstBracketCut(jsonString), <<"}", ",">>)

\* a variant of Repaired that keeps the ',' behind the last '}'
Repaired_KeepComma(jsonString) ==
    SubstringTo(FirstBracketCut(jsonString), LastObjectEnd(jsonString) + 2) \o <<"]">>

Repaired(jsonString) ==
    SubstringTo(FirstBracketCut(jsonString), LastObjectEnd(jsonString) + 1) \o <<"]">>

\* a variant of safeParseJSON whose second JSON.parse is not wrapped in try/catch
safeParseJSON_NoInnerCatch(jsonString) ==
    LET parsed == JSONParse(jsonString)
    IN IF parsed.ok
       THEN IF parsed.v.t = "array" THEN Return(parsed.v)
            ELSE IF parsed.v.t = "object" /\ FindArray(ObjectValues(parsed.v)) # Undefined
                 THEN Return(FindArray(ObjectValues(parsed.v)))
            ELSE Return(EmptyArray)
       ELSE IF LastObjectEnd(jsonString) # -1
            THEN IF JSONParse(Repaired(jsonString)).ok
                 THEN Return(JSONParse(Repaired(jsonString)).v)
                 ELSE Throw(<<"S", "y", "n", "t", "a", "x", "E", "r", "r", "o", "r">>)
            ELSE Return(EmptyArray)

\* a variant of safeParseJSON without the Array.isArray(parsed) return: an
\* array is then handled as the object it also is
safeParseJSON_NoIsArray(jsonString) ==
    LET parsed == JSONParse(jsonString)
    IN IF parsed.ok
       THEN IF parsed.v.t = "array" /\ FindArray(parsed.v.v) # Undefined
                 THEN Return(FindArray(parsed.v.v))
            ELSE IF parsed.v.t = "object" /\ FindArray(ObjectValues(parsed.v)) # Undefined
                 THEN Return(FindArray(ObjectValues(parsed.v)))
            ELSE Return(EmptyArray)
       ELSE IF LastObjectEnd(jsonString) # -1
            THEN IF JSONParse(Repaired(jsonString)).ok
                 THEN Return(JSONParse(Repaired(jsonString)).v)
                 ELSE Return(EmptyArray)
            ELSE Return(EmptyArray)

\* the try block and the catch block of safeParseJSON: parsed is the outcome
\* of JSON.parse(jsonString), lastObjectEnd the index of the last '},' of
\* cleaned, reparsed the outcome of JSON.parse on the repaired text
TryCatch(parsed, lastObjectEnd, reparsed) ==
    IF parsed.ok
    THEN IF parsed.v.t = "array" THEN Return(parsed.v)
         ELSE IF parsed.v.t = "object" /\ FindArray(ObjectValues(parsed.v)) # Undefined
              THEN Return(FindArray(ObjectValues(parsed.v)))
         ELSE Return(EmptyArray)
    ELSE IF lastObjectEnd # -1
         THEN IF reparsed.ok THEN Return(reparsed.v) ELSE Return(EmptyArray)
         ELSE Return(EmptyArray)

\* safeParseJSON(jsonString), jsonString a sequence of characters
safeParseJSON(jsonString) ==
    TryCatch(JSONParse(jsonString), LastObjectEnd(jsonString), JSONParse(Repaired(jsonString)))

----------------------------------------------------------------------------
(* cleanLatex: the regular expressions *)

\* \w, \s and \b of a regular expression without the u flag
IsWordChar(c) == c \in Lower \cup Upper \cup Digits \cup {"_"}
IsRegexSpace(c) == c \in {" ", TAB, LF, CR, FF}

\* \b holds between the characters at positions i - 1 and i
WordBoundary(s, i) ==
    (i > 1 /\ IsWordChar(s[i - 1])) # (i <= Len(s) /\ IsWordChar(s[i]))

\* \s* is greedy; what follows it in these patterns is never a space
RECURSIVE SkipRegexSpace(_, _)
SkipRegexSpace(s, i) ==
    IF i <= Len(s) /\ IsRegexSpace(s[i]) THEN SkipRegexSpace(s, i + 1) ELSE i

Imes == <<"i", "m", "e", "s">>
Times == <<BS, "t", "i", "m", "e", "s">>
Mu == <<BS, "m", "u">>
Circ == <<"^", BS, "c", "i", "r", "c">>

\* the literal patterns and their replacements, by rule name
LiteralPattern(rule) ==
    CASE rule = "bs_t" -> <<BS, "t">>
      [] rule = "tab" -> <<TAB>>
      [] rule = "bs_n" -> <<BS, "n">>
      [] rule = "extmu" -> <<"e", "x", "t", "m", "u">>
      [] rule = "xto" -> <<"x", "t", "o">>
      [] rule = "hat_e" -> <<"^", "e">>
      [] rule = "deg" -> <<"d", "e", "g">>
      [] rule = "text_o" -> <<BS, "t", "e", "x", "t", "{", "o", "}">>
      [] rule = "Ksp" -> <<"K", "s", "p">>
      [] rule = "CaOH2" -> <<"C", "a", "(", "O", "H", ")", "2">>
      [] rule = "NaOH" -> <<"N", "a", "O", "H">>
      [] rule = "boldsymbol" -> <<BS, "b", "o", "l", "d", "s", "y", "m", "b", "o", "l">>
      [] rule = "style" -> <<BS, "s", "t", "y", "l", "e">>
      [] rule = "oldtext" -> <<BS, "o", "l", "d", "t", "e", "x", "t">>

LiteralReplacement(rule) ==
    CASE rule = "bs_t" -> <<" ">>
      [] rule = "tab" -> <<" ">>
      [] rule = "bs_n" -> <<LF>>
      [] rule = "extmu" -> Mu
      [] rule = "xto" -> Circ
      [] rule = "hat_e" -> Circ
      [] rule = "deg" -> Circ
      [] rule = "text_o" -> Circ
      [] rule = "Ksp" -> <<"K", "_", "{", "s", "p", "}">>
      [] rule = "CaOH2" -> <<"C", "a", "(", "O", "H", ")", "_", "2">>
      [] rule = "NaOH" -> <<"N", "a", "O", "H">>
      [] rule = "boldsymbol" -> <<>>
      [] rule = "style" -> <<>>
      [] rule = "oldtext" -> <<>>

\* position after the match of the rule's pattern that starts at i; 0 when the
\* pattern does not match at i
MatchEnd(rule, s, i) ==
    CASE rule = "imes_between" ->
            \* (\d|\})\s*imes\s*(\d|10)
            LET j == SkipRegexSpace(s, i + 1)
                k == SkipRegexSpace(s, j + 4)
            IN IF /\ s[i] \in Digits \cup {"}"}
                  /\ OccursAt(s, Imes, j)
                  /\ k <= Len(s)
                  /\ s[k] \in Digits
               THEN k + 1 ELSE 0
      [] rule = "imes_word" ->
            \* \bimes\b
            IF OccursAt(s, Imes, i) /\ WordBoundary(s, i) /\ WordBoundary(s, i + 4)
            THEN i + 4 ELSE 0
      [] rule = "digit_mu" ->
            \* (\d)\s*mu\b
            LET j == SkipRegexSpace(s, i + 1)
            IN IF s[i] \in Digits /\ OccursAt(s, <<"m", "u">>, j) /\ WordBoundary(s, j + 2)
               THEN j + 2 ELSE 0
      [] rule = "hat_e_xto" ->
            \* \^e\s*xto
            LET j == SkipRegexSpace(s, i + 2)
            IN IF OccursAt(s, <<"^", "e">>, i) /\ OccursAt(s, <<"x", "t", "o">>, j)
               THEN j + 3 ELSE 0
      [] OTHER ->
            IF OccursAt(s, LiteralPattern(rule), i) THEN i + Len(LiteralPattern(rule)) ELSE 0

\* what replaces the match s[i .. e - 1]
Replacement(rule, s, i, e) ==
    CASE rule = "imes_between" -> <<s[i], " ">> \o Times \o <<" ", s[e - 1]>>
      [] rule = "imes_word" -> Times
      [] rule = "digit_mu" -> <<s[i]>> \o Mu
      [] rule = "hat_e_xto" -> Circ
      [] OTHER -> LiteralReplacement(rule)

\* s.replace(/pattern/g, replacement): leftmost matches, left to right, no overlap
RECURSIVE ReplaceFrom(_, _, _, _)
ReplaceFrom(rule, s, i, acc) ==
    IF i > Len(s) THEN acc
    ELSE LET e == MatchEnd(rule, s, i)
         IN IF e # 0 THEN ReplaceFrom(rule, s, e, acc \o Replacement(rule, s, i, e))
            ELSE ReplaceFrom(rule, s, i + 1, Append(acc, s[i]))

ReplaceAll(rule, s) == ReplaceFrom(rule, s, 1, <<>>)

\* a chain that lacks the rule for 'imes' between digits
RuleChain_NoImesBetween ==
    <<"bs_t", "tab", "bs_n",
      "imes_word", "extmu", "digit_mu", "hat_e_xto", "xto", "hat_e",
      "deg", "text_o", "Ksp", "CaOH2", "NaOH",
      "boldsymbol", "style", "oldtext">>

\* a chain that lacks the deletions of the decorative commands
RuleChain_NoDeletions ==
    <<"bs_t", "tab", "bs_n",
      "imes_between", "imes_word", "extmu", "digit_mu", "hat_e_xto", "xto", "hat_e",
      "deg", "text_o", "Ksp", "CaOH2", "NaOH">>

\* a chain that runs the three rules for escapes and tabs last instead of first
RuleChain_EscapesLast ==
    <<"imes_between", "imes_word", "extmu", "digit_mu", "hat_e_xto", "xto", "hat_e",
      "deg", "text_o", "Ksp", "CaOH2", "NaOH",
      "boldsymbol", "style", "oldtext",
      "bs_t", "tab", "bs_n">>

\* a chain that lacks the rules for the chemistry tokens
RuleChain_NoChemistry ==
    <<"bs_t", "tab", "bs_n",
      "imes_between", "imes_word", "extmu", "digit_mu", "hat_e_xto", "xto", "hat_e",
      "deg", "text_o",
      "boldsymbol", "style", "oldtext">>

\* the .replace calls in the order the code chains them
RuleChain ==
    <<"bs_t", "tab", "bs_n",
      "imes_between", "imes_word", "extmu", "digit_mu", "hat_e_xto", "xto", "hat_e",
      "deg", "text_o", "Ksp", "CaOH2", "NaOH",
      "boldsymbol", "style", "oldtext">>

RECURSIVE ApplyChain(_, _)
ApplyChain(chain, s) ==
    IF chain = <<>> THEN s ELSE ApplyChain(Tail(chain), ReplaceAll(Head(chain), s))

\* a variant of cleanLatex without the typeof guard: .replace is called on the
\* argument whatever it is
cleanLatex_NoTypeGuard(text) ==
    IF text.t # "string"
    THEN Throw(<<"T", "y", "p", "e", "E", "r", "r", "o", "r">>)
    ELSE Return(Str(ApplyChain(RuleChain, text.v)))

\* a variant of cleanLatex that also strips the whitespace around the text
cleanLatex_Trimmed(text) ==
    IF text.t # "string" THEN Return(Str(<<>>))
    ELSE Return(Str(Trim(ApplyChain(RuleChain, text.v))))

\* cleanLatex(text), text any JavaScript value
cleanLatex(text) ==
    IF text.t # "string" THEN Return(Str(<<>>))
    ELSE Return(Str(ApplyChain(RuleChain, text.v)))

----------------------------------------------------------------------------
(* The inputs the callers pass: the text of a model response for             *)
(* safeParseJSON, a field of a decoded record for cleanLatex                 *)

MaxRecords == 2    \* complete records in a response
MaxOthers == 2     \* fields of a keyed response besides the array field
MaxFields == 3     \* fields of a keyed response with several array fields
MaxFrags == 3      \* fragments of a free-form input
MaxWs == 2         \* whitespace characters on each side of 'imes'
MaxArgLen == 2     \* characters of a wrapped argument
MaxApply == 3      \* successive applications of cleanLatex

SeqsUpTo(S, n) == UNION {[1..k -> S] : k \in 0..n}

RECURSIVE Concat(_)
Concat(parts) == IF parts = <<>> THEN <<>> ELSE Head(parts) \o Concat(Tail(parts))

\* no two entries of the sequence are equal
Distinct(seq) == \A i, j \in 1..Len(seq) : i # j => seq[i] # seq[j]

\* the escape JSON.stringify writes for a character of a string
EscapeChar(c) ==
    CASE c = QUOTE -> <<BS, QUOTE>>
      [] c = BS -> <<BS, BS>>
      [] c = TAB -> <<BS, "t">>
      [] c = LF -> <<BS, "n">>
      [] c = CR -> <<BS, "r">>
      [] c = FF -> <<BS, "f">>
      [] c = BACKSPACE -> <<BS, "b">>
      [] OTHER -> <<c>>

Quoted(chars) ==
    <<QUOTE>> \o Concat([i \in 1..Len(chars) |-> EscapeChar(chars[i])]) \o <<QUOTE>>

\* the separators of an encoding: compact as JSON.stringify writes them,
\* spaced after ',' and ':', or loose with a space before each ','
Styles == {"compact", "spaced", "loose"}
Comma(style) ==
    CASE style = "compact" -> <<",">>
      [] style = "spaced" -> <<",", " ">>
      [] style = "loose" -> <<" ", ",">>
Colon(style) == IF style = "compact" THEN <<":">> ELSE <<":", " ">>

RECURSIVE Join(_, _)
Join(texts, sep) ==
    IF texts = <<>> THEN <<>>
    ELSE IF Len(texts) = 1 THEN texts[1]
    ELSE texts[1] \o sep \o Join(Tail(texts), sep)

\* a JSON text that encodes the value
RECURSIVE Stringify(_, _)
Stringify(value, style) ==
    CASE value.t = "string" -> Quoted(value.v)
      [] value.t = "array" ->
            <<"[">> \o Join([i \in 1..Len(value.v) |-> Stringify(value.v[i], style)],
                            Comma(style)) \o <<"]">>
      [] value.t = "object" ->
            <<"{">> \o Join([i \in 1..Len(value.v) |->
                                Quoted(value.v[i].k) \o Colon(style)
                                    \o Stringify(value.v[i].v, style)],
                            Comma(style)) \o <<"}">>
      [] value.t = "null" -> <<"n", "u", "l", "l">>
      [] OTHER -> value.v

Field(k, value) == [k |-> k, v |-> value]

\* records of the schema {q, o, a}; the first and the third are the records of
\* the example response, the second has an answer text that holds the
\* characters '},'
RecordPool ==
    { Obj(<<Field(<<"q">>, Str(<<"2", " ", "i", "m", "e", "s", " ", "3", "?">>)),
            Field(<<"o">>, Arr(<<Str(<<"5">>), Str(<<"6">>)>>)),
            Field(<<"a">>, Str(<<"6">>))>>),
      Obj(<<Field(<<"q">>, Str(<<"A">>)), Field(<<"a">>, Str(<<"{", "1", "}", ",", "{", "2", "}">>))>>),
      Obj(<<Field(<<"q">>, Str(<<"t", "r", "u", "n", "c", "a", "t", "e", "d">>))>>) }

\* elements of a response that is an array
ElementPool == RecordPool \cup {Str(<<"s">>), Num(<<"7">>)}

\* arrays carried in a field of a keyed response
FieldArrays ==
    {Arr(<<>>)} \cup {Arr(<<r>>) : r \in RecordPool}
        \cup {Arr(<<Num(<<"1">>), Num(<<"2">>)>>)}

\* fields of a keyed response that hold no array themselves
OtherFields ==
    { Field(<<"n">>, Num(<<"3">>)),
      Field(<<"0">>, Str(<<"z">>)),
      Field(<<"m">>, Obj(<<Field(<<"k">>, Arr(<<Num(<<"1">>)>>))>>)),
      Field(<<"e">>, Null) }

\* fields of a keyed response of which several hold an array: an empty array,
\* an array of one record, an array under an index key, and fields without
\* an array of their own
KeyedFields ==
    { Field(<<"a">>, Arr(<<>>)),
      Field(<<"b">>, Arr(<<Obj(<<Field(<<"q">>, Str(<<"A">>))>>)>>)),
      Field(<<"1">>, Arr(<<Num(<<"1">>), Num(<<"2">>)>>)),
      Field(<<"0">>, Str(<<"z">>)),
      Field(<<"n">>, Num(<<"3">>)),
      Field(<<"m">>, Obj(<<Field(<<"k">>, Arr(<<Num(<<"1">>)>>))>>)) }

ArrayKey == <<"i", "t", "e", "m", "s">>

\* whitespace around a response
Pads == {<<>>, <<" ">>, <<LF>>}

\* prose or a heading line that a response carries before its array
Preambles ==
    { <<"S", "u", "r", "e", ":", " ">>, <<"J", "S", "O", "N", LF>> }

\* pieces of responses that are cut, prefixed by prose or not JSON at all
JsonFrags ==
    { <<"{", QUOTE, "q", QUOTE, ":", QUOTE, "B", QUOTE, "}">>, <<",">>, <<"}">>, <<"]">>, <<"[">>, <<"{">>,
      <<QUOTE>>, <<"S", "u", "r", "e", ":", " ">> }

\* pieces of text fields: the tokens the rules look for, and neutral text
LatexFrags ==
    { Imes, <<BS, "t">>, <<TAB>>, <<BS, "n">>, <<"d", "e", "g">>, <<"m", "u">>,
      <<"K", "s", "p">>, <<BS, "s", "t", "y", "l", "e">>, <<"2">>, <<" ">> }

DigitSample == {"0", "1"}
WsChars == {" ", TAB, LF}

Wrappers == {LiteralPattern("boldsymbol"), LiteralPattern("style"), LiteralPattern("oldtext")}
\* the arrow commands that reach cleanLatex inside grouping braces
ArrowCommands ==
    { <<BS, "u", "p", "a", "r", "r", "o", "w">>,
      <<BS, "d", "o", "w", "n", "a", "r", "r", "o", "w">>,
      <<BS, "r", "i", "g", "h", "t", "a", "r", "r", "o", "w">>,
      <<BS, "t", "o">> }

\* the chemistry tokens, shorthand and canonical, and a digit
ChemFrags ==
    { LiteralPattern("Ksp"), LiteralPattern("CaOH2"),
      LiteralReplacement("Ksp"), LiteralReplacement("CaOH2"), <<"2">> }

\* the canonical form of a chemistry token
Canonical(frag) ==
    IF frag \in {LiteralPattern("Ksp"), LiteralPattern("CaOH2")}
    THEN IF frag[1] = "K" THEN <<"K", "_", "{", "s", "p", "}">>
         ELSE <<"C", "a", "(", "O", "H", ")", "_", "2">>
    ELSE frag

\* correctly escaped commands: the ones that begin with backslash-t or
\* backslash-n, and two that do not
ValidCommands ==
    { <<BS, "t", "h", "e", "t", "a">>, <<BS, "t", "e", "x", "t">>, <<BS, "t", "a", "n">>,
      <<BS, "t", "o">>, <<BS, "n", "u">>, <<BS, "n", "e", "q">>,
      <<BS, "f", "r", "a", "c">>, <<BS, "a", "l", "p", "h", "a">> }

ArgChars == {"x", "_", "1", "+"}

\* arguments of cleanLatex that are not strings
NonStrings ==
    { Null, Undefined, Num(<<"4", "2">>), True, False, Arr(<<>>), Arr(<<Str(<<"a">>)>>),
      Obj(<<>>), Obj(<<Field(<<"q">>, Str(Imes))>>) }

----------------------------------------------------------------------------
(* The records the generation operations build from a decoded response *)

\* reading a property of null or undefined raises a TypeError
Readable(value) == value.t \notin {"null", "undefined"}

TypeError == Throw(<<"T", "y", "p", "e", "E", "r", "r", "o", "r">>)

\* value[k] for a decoded JSON value: the member of an object, undefined when
\* the object has no such key or the value is no object
Get(value, k) ==
    IF value.t = "object" /\ \E i \in 1..Len(value.v) : value.v[i].k = k
    THEN value.v[CHOOSE i \in 1..Len(value.v) : value.v[i].k = k].v
    ELSE Undefined

\* the decimal digits of a natural number
RECURSIVE Decimal(_)
Decimal(n) ==
    LET digit == CHOOSE c \in Digits : DigitVal(c) = n % 10
    IN IF n < 10 THEN <<digit>> ELSE Append(Decimal(n \div 10), digit)

\* the string a template literal makes of a value
RECURSIVE TemplateString(_)
TemplateString(value) ==
    CASE value.t = "null" -> <<"n", "u", "l", "l">>
      [] value.t = "undefined" -> <<"u", "n", "d", "e", "f", "i", "n", "e", "d">>
      [] value.t = "array" ->
            Join([i \in 1..Len(value.v) |->
                     IF Readable(value.v[i]) THEN TemplateString(value.v[i]) ELSE <<>>],
                 <<",">>)
      [] value.t = "object" ->
            <<"[", "o", "b", "j", "e", "c", "t", " ", "O", "b", "j", "e", "c", "t", "]">>
      [] OTHER -> value.v

\* the own enumerable properties that ...value copies into an object literal
Spread(value) ==
    CASE value.t = "object" -> value.v
      [] value.t = "array" -> [i \in 1..Len(value.v) |-> Field(Decimal(i - 1), value.v[i])]
      [] value.t = "string" ->
            [i \in 1..Len(value.v) |-> Field(Decimal(i - 1), Str(<<value.v[i]>>))]
      [] OTHER -> <<>>

\* the properties of an object literal after the fields are defined in turn
RECURSIVE PutAll(_, _)
PutAll(members, fields) ==
    IF fields = <<>> THEN members
    ELSE PutAll(ObjPut(members, Head(fields).k, Head(fields).v), Tail(fields))

\* the values that || replaces by its right operand
Falsy(value) ==
    \/ value.t \in {"null", "undefined"}
    \/ value = False
    \/ value = Str(<<>>)
    \/ value.t = "number" /\ \A i \in 1..Len(value.v) : value.v[i] \in {"0", "-", "."}

\* the text of a string, number or boolean field as cleanLatex returns it
Sanitized(raw) == cleanLatex(raw).v

General == <<"G", "e", "n", "e", "r", "a", "l">>

\* the label of the one entry of batches, `${examType.toUpperCase()} Standard`
\* unless examType is 'varsity'
BatchLabel(type) ==
    CASE type = "varsity" -> <<"V", "a", "r", "s", "i", "t", "y", " ", "C", "o", "r", "e">>
      [] type = "ckruet" -> <<"C", "K", "R", "U", "E", "T", " ", "S", "t", "a", "n", "d", "a", "r", "d">>
      [] type = "buet" -> <<"B", "U", "E", "T", " ", "S", "t", "a", "n", "d", "a", "r", "d">>

\* array.map(f), given the completions of the calls of f in order: the array
\* of the results, or the error of a call that raised
MapRecords(results) ==
    IF \E i \in 1..Len(results) : results[i].kind = "throw" THEN TypeError
    ELSE Return(Arr([i \in 1..Len(results) |-> results[i].v]))

\* mq.o.map(opt => cleanLatex(opt))
CleanOptions(mq) == Arr([i \in 1..Len(Get(mq, <<"o">>).v) |-> Sanitized(Get(mq, <<"o">>).v[i])])

\* mq => ({ id, text: cleanLatex(mq.q), options: mq.o.map(...), correctAnswer:
\* cleanLatex(mq.a) }); the id is left out of the record
QuestionOf(mq) ==
    IF ~Readable(mq) \/ Get(mq, <<"o">>).t # "array" THEN TypeError
    ELSE Return(Obj(<<Field(<<"t", "e", "x", "t">>, Sanitized(Get(mq, <<"q">>))),
                      Field(<<"o", "p", "t", "i", "o", "n", "s">>, CleanOptions(mq)),
                      Field(<<"c", "o", "r", "r", "e", "c", "t", "A", "n", "s", "w", "e", "r">>,
                            Sanitized(Get(mq, <<"a">>)))>>))

\* the same with text: cleanLatex(`[${batch.label}] ${mq.q}`)
SlideQuestionOf(label, mq) ==
    IF ~Readable(mq) \/ Get(mq, <<"o">>).t # "array" THEN TypeError
    ELSE Return(Obj(<<Field(<<"t", "e", "x", "t">>,
                            Sanitized(Str(<<"[">> \o label \o <<"]", " ">>
                                              \o TemplateString(Get(mq, <<"q">>))))),
                      Field(<<"o", "p", "t", "i", "o", "n", "s">>, CleanOptions(mq)),
                      Field(<<"c", "o", "r", "r", "e", "c", "t", "A", "n", "s", "w", "e", "r">>,
                            Sanitized(Get(mq, <<"a">>)))>>))

\* n => ({ id, ...n, content: cleanLatex(n.content) })
NoteOf(n) ==
    IF ~Readable(n) THEN TypeError
    ELSE Return(Obj(ObjPut(PutAll(<<>>, Spread(n)),
                           <<"c", "o", "n", "t", "e", "n", "t">>,
                           Sanitized(Get(n, <<"c", "o", "n", "t", "e", "n", "t">>)))))

\* q => ({ id, ...q, subject: cleanLatex(q.subject || "General"),
\* question: cleanLatex(q.question), answer: cleanLatex(q.answer) })
WrittenOf(q) ==
    IF ~Readable(q) THEN TypeError
    ELSE LET subject == Get(q, <<"s", "u", "b", "j", "e", "c", "t">>)
         IN Return(Obj(PutAll(PutAll(<<>>, Spread(q)),
                              << Field(<<"s", "u", "b", "j", "e", "c", "t">>,
                                       Sanitized(IF Falsy(subject) THEN Str(General)
                                                 ELSE subject)),
                                 Field(<<"q", "u", "e", "s", "t", "i", "o", "n">>,
                                       Sanitized(Get(q, <<"q", "u", "e", "s", "t", "i", "o", "n">>))),
                                 Field(<<"a", "n", "s", "w", "e", "r">>,
                                       Sanitized(Get(q, <<"a", "n", "s", "w", "e", "r">>))) >>)))

\* minified.map(mq => ...) on what safeParseJSON returned; an error of
\* safeParseJSON is the error of the whole
MapQuestions(minified) ==
    IF minified.kind = "throw" THEN minified
    ELSE MapRecords([i \in 1..Len(minified.v.v) |-> QuestionOf(minified.v.v[i])])

MapSlideQuestions(label, minified) ==
    IF minified.kind = "throw" THEN minified
    ELSE MapRecords([i \in 1..Len(minified.v.v) |-> SlideQuestionOf(label, minified.v.v[i])])

\* notes.map(n => ...)
MapNotes(decoded) ==
    IF decoded.kind = "throw" THEN decoded
    ELSE MapRecords([i \in 1..Len(decoded.v.v) |-> NoteOf(decoded.v.v[i])])

\* generated.map(q => ...)
MapWritten(generated) ==
    IF generated.kind = "throw" THEN generated
    ELSE MapRecords([i \in 1..Len(generated.v.v) |-> WrittenOf(generated.v.v[i])])

----------------------------------------------------------------------------
(* The initial states, one family of inputs each: family records how the     *)
(* input was produced, intended the value its producer meant.                *)

Family(name, style, tail) == [name |-> name, style |-> style, tail |-> tail]

\* no generation operation runs while a helper is called on its own
NoGeneration ==
    /\ op = "none"
    /\ examType = "varsity"
    /\ gpc = "idle"
    /\ aborted = FALSE
    /\ hasMore = FALSE
    /\ retryCount = 0
    /\ iteration = 0
    /\ allQuestions = 0
    /\ response = Undefined
    /\ batch = Undefined
    /\ streak = 0

\* the state of App after its first render
AppInitial ==
    /\ step = "UPLOAD"
    /\ uploadMode = "extract"
    /\ questions = <<>>
    /\ notes = <<>>
    /\ writtenQuestions = <<>>
    /\ currentQIndex = 0
    /\ userAnswers = <<>>
    /\ answerTimes = <<>>
    /\ timeSpent = 0
    /\ isProcessing = FALSE
    /\ isBackgroundExtracting = FALSE
    /\ uploads = <<>>
    /\ now = 0

\* the state of AIChat after its first render, before its effect ran
ChatInitial ==
    /\ messages = <<>>
    /\ isLoading = FALSE
    /\ chatSession = "pending"
    /\ streams = <<>>

Start(f, a, fam, meant) ==
    /\ fn = f
    /\ arg = a
    /\ family = fam
    /\ intended = meant
    /\ pc = "call"
    /\ ret = NoCompletion
    /\ applied = <<>>
    /\ NoGeneration
    /\ AppInitial
    /\ ChatInitial

\* a complete array of elements, possibly surrounded by whitespace
InitArray ==
    \E items \in SeqsUpTo(ElementPool, MaxRecords), style \in Styles, pad \in Pads :
        Start("safeParseJSON",
              Str(pad \o Stringify(Arr(items), style) \o pad),
              Family("array", style, <<>>),
              Arr(items))

\* a keyed structure with one array field among other fields
InitObject ==
    \E others \in {o \in SeqsUpTo(OtherFields, MaxOthers) : Distinct(o)} :
        \E pos \in 0..Len(others), array \in FieldArrays, style \in Styles :
            Start("safeParseJSON",
                  Str(Stringify(Obj(SubSeq(others, 1, pos)
                                      \o <<Field(ArrayKey, array)>>
                                      \o SubSeq(others, pos + 1, Len(others))),
                                style)),
                  Family("object", style, <<>>),
                  array)

\* a keyed structure with any number of array fields, in any order
InitKeyed ==
    \E members \in {o \in SeqsUpTo(KeyedFields, MaxFields) : Distinct(o)}, style \in Styles :
        Start("safeParseJSON",
              Str(Stringify(Obj(members), style)),
              Family("keyed", style, <<>>),
              Obj(members))

\* an array cut inside a record that follows complete records
InitTruncated ==
    \E leading \in SeqsUpTo(RecordPool, MaxRecords) \ {<<>>},
       last \in RecordPool, style \in Styles :
        LET head == <<"[">>
                    \o Join([i \in 1..Len(leading) |-> Stringify(leading[i], style)],
                            Comma(style))
                    \o Comma(style)
            whole == Stringify(last, style)
        IN \E cut \in 1..(Len(whole) - 1) :
               Start("safeParseJSON",
                     Str(head \o SubSeq(whole, 1, cut)),
                     Family("truncated", style, SubSeq(whole, 1, cut)),
                     Arr(leading))

\* a complete array behind a preamble
InitPreamble ==
    \E pre \in Preambles, items \in SeqsUpTo(RecordPool, MaxRecords), style \in Styles :
        Start("safeParseJSON",
              Str(pre \o Stringify(Arr(items), style)),
              Family("preamble", style, Stringify(Arr(items), style)),
              Arr(items))

\* an array cut inside a record, behind a preamble
InitPreambleTruncated ==
    \E pre \in Preambles, leading \in SeqsUpTo(RecordPool, MaxRecords) \ {<<>>},
       last \in RecordPool :
        LET head == <<"[">>
                    \o Join([i \in 1..Len(leading) |-> Stringify(leading[i], "compact")],
                            Comma("compact"))
                    \o Comma("compact")
            whole == Stringify(last, "compact")
        IN \E cut \in 1..(Len(whole) - 1) :
               Start("safeParseJSON",
                     Str(pre \o head \o SubSeq(whole, 1, cut)),
                     Family("preamble_cut", "compact", head \o SubSeq(whole, 1, cut)),
                     Arr(leading))

\* an array cut right behind the separator that follows a complete record,
\* behind a preamble or not
InitSeparatorCut ==
    \E pre \in Preambles \cup {<<>>}, leading \in SeqsUpTo(RecordPool, MaxRecords) \ {<<>>},
       style \in {"compact", "spaced"} :
        LET body == <<"[">>
                    \o Join([i \in 1..Len(leading) |-> Stringify(leading[i], style)],
                            Comma(style))
                    \o Comma(style)
        IN Start("safeParseJSON",
                 Str(pre \o body),
                 Family("separator_cut", style, body),
                 Arr(leading))

\* any concatenation of pieces of JSON and prose
InitJsonFragments ==
    \E frags \in SeqsUpTo(JsonFrags, MaxFrags) :
        Start("safeParseJSON", Str(Concat(frags)), Family("fragments", "none", <<>>),
              Undefined)

\* a value that is not a string
InitNonString ==
    \E value \in NonStrings :
        Start("cleanLatex", value, Family("nonstring", "none", <<>>), Str(<<>>))

\* a bare 'imes' between two digits, whitespace on either side
InitImes ==
    \E d1 \in DigitSample, d2 \in DigitSample,
       ws1 \in SeqsUpTo(WsChars, MaxWs), ws2 \in SeqsUpTo(WsChars, MaxWs) :
        Start("cleanLatex",
              Str(<<d1>> \o ws1 \o Imes \o ws2 \o <<d2>>),
              Family("imes", "none", <<>>),
              Str(<<d1, " ">> \o Times \o <<" ", d2>>))

\* a braced argument behind a decorative command
InitWrapped ==
    \E wrapper \in Wrappers, argument \in SeqsUpTo(ArgChars, MaxArgLen) :
        Start("cleanLatex",
              Str(wrapper \o <<"{">> \o argument \o <<"}">>),
              Family("wrapped", "none", wrapper),
              Str(<<"{">> \o argument \o <<"}">>))

\* an arrow command inside one or two pairs of grouping braces
InitArrow ==
    \E command \in ArrowCommands, pad \in Pads, double \in BOOLEAN :
        Start("cleanLatex",
              Str((IF double THEN <<"{">> \o pad ELSE <<>>)
                      \o <<"{">> \o pad \o command \o pad \o <<"}">>
                      \o (IF double THEN pad \o <<"}">> ELSE <<>>)),
              Family("arrow", "none", command),
              Str(command))

\* any concatenation of chemistry tokens
InitChemistry ==
    \E frags \in SeqsUpTo(ChemFrags, MaxFrags) :
        Start("cleanLatex", Str(Concat(frags)), Family("chem", "none", <<>>),
              Str(Concat([i \in 1..Len(frags) |-> Canonical(frags[i])])))

\* markup that is already valid: one or two correctly escaped commands, each
\* followed by a space
InitValidMarkup ==
    \E commands \in SeqsUpTo(ValidCommands, 2) \ {<<>>} :
        Start("cleanLatex",
              Str(Concat([i \in 1..Len(commands) |-> commands[i] \o <<" ">>])),
              Family("valid", "none", <<>>),
              Arr([i \in 1..Len(commands) |-> Str(commands[i])]))

\* any concatenation of pieces of text
InitLatexFragments ==
    \E frags \in SeqsUpTo(LatexFrags, MaxFrags) :
        Start("cleanLatex", Str(Concat(frags)), Family("fragments", "none", <<>>),
              Undefined)

----------------------------------------------------------------------------
(* The calls *)

Init ==
    \/ InitArray
    \/ InitObject
    \/ InitKeyed
    \/ InitTruncated
    \/ InitPreamble
    \/ InitPreambleTruncated
    \/ InitSeparatorCut
    \/ InitJsonFragments
    \/ InitNonString
    \/ InitImes
    \/ InitWrapped
    \/ InitArrow
    \/ InitChemistry
    \/ InitValidMarkup
    \/ InitLatexFragments

\* the caller decodes a response: safeParseJSON(response.text)
Call_safeParseJSON ==
    /\ pc = "call"
    /\ fn = "safeParseJSON"
    /\ ret' = safeParseJSON(arg.v)
    /\ pc' = "returned"
    /\ UNCHANGED <<fn, arg, family, intended, applied>>
    /\ UNCHANGED <<genVars, appVars, chatVars>>

\* the caller cleans a field: cleanLatex(field)
Call_cleanLatex ==
    /\ pc = "call"
    /\ fn = "cleanLatex"
    /\ ret' = cleanLatex(arg)
    /\ applied' = <<ret'>>
    /\ pc' = "returned"
    /\ UNCHANGED <<fn, arg, family, intended>>
    /\ UNCHANGED <<genVars, appVars, chatVars>>

\* cleanLatex is applied to the text an earlier application returned
Reapply_cleanLatex ==
    /\ pc = "returned"
    /\ fn = "cleanLatex"
    /\ ret.kind = "return"
    /\ Len(applied) < MaxApply
    /\ ret' = cleanLatex(ret.v)
    /\ applied' = Append(applied, ret')
    /\ UNCHANGED <<fn, arg, family, intended, pc>>
    /\ UNCHANGED <<genVars, appVars, chatVars>>

Next == Call_safeParseJSON \/ Call_cleanLatex \/ Reapply_cleanLatex

Spec == Init /\ [][Next]_vars

----------------------------------------------------------------------------
(* The generation operations.  A request is one step from the head of the    *)
(* loop to the pending await; the settlement of the request is one step      *)
(* that runs the code behind the await up to the head of the loop again.     *)

MAX_RETRIES == 3
FullBatch == 5           \* news.length < 5 ends extractQuestions
MaxQuestions == 200      \* allQuestions.length >= 200 ends extractQuestions
MaxIterations == 5       \* iteration < 5 in generateWrittenQuestions
FullWrittenBatch == 3    \* generated.length < 3 ends generateWrittenQuestions

Operations ==
    {"extractQuestions", "generateQuestionsFromSlides", "generateStudyNotes",
     "generateWrittenQuestions"}
ExamTypes == {"varsity", "ckruet", "buet"}

\* a request that rejected, or whose response carried no text
Rejected == [t |-> "rejected", v |-> <<>>]

\* records of the schemas {q, o, a}, {title, content, importance} and
\* {subject, question, answer, marks, type}
QuestionRecord ==
    Obj(<<Field(<<"q">>, Str(<<"2", " ", "i", "m", "e", "s", " ", "3", "?">>)),
          Field(<<"o">>, Arr(<<Str(<<"5">>), Str(<<"6", "d", "e", "g">>)>>)),
          Field(<<"a">>, Str(<<"6">>))>>)

NoteRecords ==
    << Obj(<<Field(<<"t", "i", "t", "l", "e">>, Str(<<"K", "s", "p">>)),
             Field(<<"c", "o", "n", "t", "e", "n", "t">>, Str(<<"2", " ", "i", "m", "e", "s", " ", "3">>)),
             Field(<<"i", "m", "p", "o", "r", "t", "a", "n", "c", "e">>, Str(<<"H", "i", "g", "h">>))>>),
       Obj(<<Field(<<"t", "i", "t", "l", "e">>, Str(<<"T">>)),
             Field(<<"c", "o", "n", "t", "e", "n", "t">>, Str(<<"x">>)),
             Field(<<"i", "m", "p", "o", "r", "t", "a", "n", "c", "e">>, Str(<<"N", "o", "r", "m", "a", "l">>))>>) >>

WrittenRecords ==
    << Obj(<<Field(<<"s", "u", "b", "j", "e", "c", "t">>, Str(<<>>)),
             Field(<<"q", "u", "e", "s", "t", "i", "o", "n">>, Str(<<"3", "0", "d", "e", "g">>)),
             Field(<<"a", "n", "s", "w", "e", "r">>, Str(<<"K", "s", "p">>)),
             Field(<<"m", "a", "r", "k", "s">>, Str(<<"5">>)),
             Field(<<"t", "y", "p", "e">>, Str(<<"M", "a", "t", "h">>))>>),
       Obj(<<Field(<<"s", "u", "b", "j", "e", "c", "t">>, Str(<<"C", "a", "(", "O", "H", ")", "2">>)),
             Field(<<"q", "u", "e", "s", "t", "i", "o", "n">>, Str(<<"Q">>)),
             Field(<<"a", "n", "s", "w", "e", "r">>, Str(<<"A">>)),
             Field(<<"m", "a", "r", "k", "s">>, Str(<<"1", "0">>)),
             Field(<<"t", "y", "p", "e">>, Str(<<"T", "h", "e", "o", "r", "y">>))>>) >>

\* the texts a response to a question request may carry: no text, an empty
\* array, one record, a full batch, a record without options, an array with a
\* null element, an array cut in its second record
QuestionResponses ==
    { <<>>,
      Stringify(Arr(<<>>), "compact"),
      Stringify(Arr(<<QuestionRecord>>), "compact"),
      Stringify(Arr([i \in 1..FullBatch |-> QuestionRecord]), "compact"),
      Stringify(Arr(<<Obj(<<Field(<<"q">>, Str(<<"A">>))>>)>>), "compact"),
      Stringify(Arr(<<Null>>), "compact"),
      <<"[">> \o Stringify(QuestionRecord, "compact") \o <<",", "{", QUOTE, "q">> }

NoteResponses ==
    { Stringify(Arr(<<>>), "compact"),
      Stringify(Obj(<<>>), "compact"),
      Stringify(Arr(<<NoteRecords[1]>>), "compact"),
      Stringify(Arr(NoteRecords), "spaced"),
      Stringify(Arr(<<Null>>), "compact") }

WrittenResponses ==
    { Stringify(Arr(<<>>), "compact"),
      Stringify(Arr(<<WrittenRecords[1]>>), "compact"),
      Stringify(Arr([i \in 1..FullWrittenBatch |-> WrittenRecords[1 + (i % 2)]]), "compact"),
      Stringify(Arr(<<Null>>), "compact") }

\* a call of a generation operation with a fresh signal
GenInit ==
    /\ \E o \in Operations :
          \E type \in (IF o = "generateQuestionsFromSlides" THEN ExamTypes ELSE {"varsity"}) :
              op = o /\ examType = type
    /\ gpc = "loop"
    /\ aborted = FALSE
    /\ hasMore = TRUE
    /\ retryCount = 0
    /\ iteration = 0
    /\ allQuestions = 0
    /\ response = Undefined
    /\ batch = Undefined
    /\ streak = 0
    /\ AppInitial
    /\ ChatInitial
    /\ fn = "none"
    /\ arg = Undefined
    /\ family = Family("none", "none", <<>>)
    /\ intended = Undefined
    /\ pc = "idle"
    /\ ret = NoCompletion
    /\ applied = <<>>

\* the owner of the signal aborts it while the operation runs
Abort ==
    /\ gpc \in {"loop", "await"}
    /\ ~aborted
    /\ aborted' = TRUE
    /\ UNCHANGED <<streak, op, examType, gpc, hasMore, retryCount, iteration, allQuestions,
                   response, batch>>
    /\ UNCHANGED <<helperVars, appVars, chatVars>>

\* while (hasMore) { if (signal?.aborted) break; ... await generateContent
extractQuestions_Loop ==
    /\ op = "extractQuestions"
    /\ gpc = "loop"
    /\ IF hasMore /\ ~aborted
       THEN gpc' = "await" /\ response' = Undefined /\ batch' = Undefined
       ELSE gpc' = "done" /\ UNCHANGED <<response, batch>>
    /\ UNCHANGED <<streak, op, examType, aborted, hasMore, retryCount, iteration, allQuestions>>
    /\ UNCHANGED <<helperVars, appVars, chatVars>>

\* a variant of extractQuestions_Resolved that keeps retryCount when a batch
\* arrived
extractQuestions_Resolved_NoReset ==
    /\ op = "extractQuestions"
    /\ gpc = "await"
    /\ \E text \in QuestionResponses :
          \E news \in {MapQuestions(safeParseJSON(text))} :
             /\ response' = Str(text)
             /\ IF news.kind = "throw" \/ news.v.v = <<>>
                THEN /\ retryCount' = retryCount + 1
                     /\ hasMore' = IF retryCount + 1 >= MAX_RETRIES THEN FALSE ELSE hasMore
                     /\ batch' = Undefined
                     /\ streak' = IF streak < MAX_RETRIES THEN streak + 1 ELSE streak
                     /\ UNCHANGED allQuestions
                ELSE /\ retryCount' = retryCount
                     /\ streak' = 0
                     /\ allQuestions' = allQuestions + Len(news.v.v)
                     /\ batch' = news.v
                     /\ hasMore' = IF \/ Len(news.v.v) < FullBatch
                                      \/ allQuestions + Len(news.v.v) >= MaxQuestions
                                   THEN FALSE ELSE hasMore
    /\ gpc' = "loop"
    /\ UNCHANGED <<op, examType, aborted, iteration>>
    /\ UNCHANGED <<helperVars, appVars, chatVars>>

\* the request resolved: decode, build news, count an empty batch as a retry,
\* else hand news to onBatch
extractQuestions_Resolved ==
    /\ op = "extractQuestions"
    /\ gpc = "await"
    /\ \E text \in QuestionResponses :
          \E news \in {MapQuestions(safeParseJSON(text))} :
             /\ response' = Str(text)
             /\ IF news.kind = "throw" \/ news.v.v = <<>>
                THEN /\ retryCount' = retryCount + 1
                     /\ hasMore' = IF retryCount + 1 >= MAX_RETRIES THEN FALSE ELSE hasMore
                     /\ batch' = Undefined
                     /\ streak' = IF streak < MAX_RETRIES THEN streak + 1 ELSE streak
                     /\ UNCHANGED allQuestions
                ELSE /\ retryCount' = 0
                     /\ streak' = 0
                     /\ allQuestions' = allQuestions + Len(news.v.v)
                     /\ batch' = news.v
                     /\ hasMore' = IF \/ Len(news.v.v) < FullBatch
                                      \/ allQuestions + Len(news.v.v) >= MaxQuestions
                                   THEN FALSE ELSE hasMore
    /\ gpc' = "loop"
    /\ UNCHANGED <<op, examType, aborted, iteration>>
    /\ UNCHANGED <<helperVars, appVars, chatVars>>

\* a variant of extractQuestions_Rejected that swallows the error without
\* counting it
extractQuestions_Rejected_NoCount ==
    /\ op = "extractQuestions"
    /\ gpc = "await"
    /\ response' = Rejected
    /\ batch' = Undefined
    /\ streak' = IF streak < MAX_RETRIES THEN streak + 1 ELSE streak
    /\ gpc' = "loop"
    /\ UNCHANGED <<op, examType, aborted, iteration, allQuestions, retryCount, hasMore>>
    /\ UNCHANGED <<helperVars, appVars, chatVars>>

\* the request rejected: catch (error) { if (++retryCount >= MAX_RETRIES) ... }
extractQuestions_Rejected ==
    /\ op = "extractQuestions"
    /\ gpc = "await"
    /\ response' = Rejected
    /\ batch' = Undefined
    /\ retryCount' = retryCount + 1
    /\ hasMore' = IF retryCount + 1 >= MAX_RETRIES THEN FALSE ELSE hasMore
    /\ streak' = IF streak < MAX_RETRIES THEN streak + 1 ELSE streak
    /\ gpc' = "loop"
    /\ UNCHANGED <<op, examType, aborted, iteration, allQuestions>>
    /\ UNCHANGED <<helperVars, appVars, chatVars>>

\* for (const batch of batches) { if (signal?.aborted) break; ... await
generateQuestionsFromSlides_Loop ==
    /\ op = "generateQuestionsFromSlides"
    /\ gpc = "loop"
    /\ IF iteration < 1 /\ ~aborted
       THEN /\ gpc' = "await"
            /\ iteration' = iteration + 1
            /\ response' = Undefined
            /\ batch' = Undefined
       ELSE gpc' = "done" /\ UNCHANGED <<iteration, response, batch>>
    /\ UNCHANGED <<streak, op, examType, aborted, hasMore, retryCount, allQuestions>>
    /\ UNCHANGED <<helperVars, appVars, chatVars>>

\* the request resolved: decode, hand the questions to onBatch unless there
\* is none; an error is swallowed
generateQuestionsFromSlides_Resolved ==
    /\ op = "generateQuestionsFromSlides"
    /\ gpc = "await"
    /\ \E text \in QuestionResponses :
          \E news \in {MapSlideQuestions(BatchLabel(examType), safeParseJSON(text))} :
             /\ response' = Str(text)
             /\ batch' = IF news.kind = "throw" \/ news.v.v = <<>> THEN Undefined
                         ELSE news.v
    /\ gpc' = "loop"
    /\ UNCHANGED <<streak, op, examType, aborted, hasMore, retryCount, iteration, allQuestions>>
    /\ UNCHANGED <<helperVars, appVars, chatVars>>

\* the request rejected: catch (error) {}
generateQuestionsFromSlides_Rejected ==
    /\ op = "generateQuestionsFromSlides"
    /\ gpc = "await"
    /\ response' = Rejected
    /\ batch' = Undefined
    /\ gpc' = "loop"
    /\ UNCHANGED <<streak, op, examType, aborted, hasMore, retryCount, iteration, allQuestions>>
    /\ UNCHANGED <<helperVars, appVars, chatVars>>

\* generateStudyNotes issues its one request, whatever the signal
generateStudyNotes_Request ==
    /\ op = "generateStudyNotes"
    /\ gpc = "loop"
    /\ gpc' = "await"
    /\ UNCHANGED <<streak, op, examType, aborted, hasMore, retryCount, iteration, allQuestions,
                   response, batch>>
    /\ UNCHANGED <<helperVars, appVars, chatVars>>

\* a variant of generateStudyNotes_Resolved that raises when no note was decoded
generateStudyNotes_Resolved_RaiseOnEmpty ==
    /\ op = "generateStudyNotes"
    /\ gpc = "await"
    /\ \E text \in NoteResponses :
          \E decoded \in {safeParseJSON(text)} :
          \E news \in {IF decoded.kind = "return" /\ decoded.v.v = <<>> THEN TypeError
                        ELSE MapNotes(decoded)} :
             /\ response' = Str(text)
             /\ IF news.kind = "throw"
                THEN batch' = Undefined /\ gpc' = "raised"
                ELSE batch' = news.v /\ gpc' = "done"
    /\ UNCHANGED <<streak, op, examType, aborted, hasMore, retryCount, iteration, allQuestions>>
    /\ UNCHANGED <<helperVars, appVars, chatVars>>

\* the request resolved: decode and hand the notes to onBatch; nothing
\* catches an error
generateStudyNotes_Resolved ==
    /\ op = "generateStudyNotes"
    /\ gpc = "await"
    /\ \E text \in NoteResponses :
          \E news \in {MapNotes(safeParseJSON(text))} :
             /\ response' = Str(text)
             /\ IF news.kind = "throw"
                THEN batch' = Undefined /\ gpc' = "raised"
                ELSE batch' = news.v /\ gpc' = "done"
    /\ UNCHANGED <<streak, op, examType, aborted, hasMore, retryCount, iteration, allQuestions>>
    /\ UNCHANGED <<helperVars, appVars, chatVars>>

\* the request rejected: the rejection is the operation's
generateStudyNotes_Rejected ==
    /\ op = "generateStudyNotes"
    /\ gpc = "await"
    /\ response' = Rejected
    /\ gpc' = "raised"
    /\ UNCHANGED <<streak, op, examType, aborted, hasMore, retryCount, iteration, allQuestions, batch>>
    /\ UNCHANGED <<helperVars, appVars, chatVars>>

\* while (hasMore && iteration < 5) { if (signal?.aborted) break; iteration++;
\* ... await generateContent
generateWrittenQuestions_Loop ==
    /\ op = "generateWrittenQuestions"
    /\ gpc = "loop"
    /\ IF hasMore /\ iteration < MaxIterations /\ ~aborted
       THEN /\ gpc' = "await"
            /\ iteration' = iteration + 1
            /\ response' = Undefined
            /\ batch' = Undefined
       ELSE gpc' = "done" /\ UNCHANGED <<iteration, response, batch>>
    /\ UNCHANGED <<streak, op, examType, aborted, hasMore, retryCount, allQuestions>>
    /\ UNCHANGED <<helperVars, appVars, chatVars>>

\* the request resolved: decode, leave the loop on an empty array, else build
\* news and hand it to onBatch; an error ends the loop
generateWrittenQuestions_Resolved ==
    /\ op = "generateWrittenQuestions"
    /\ gpc = "await"
    /\ \E text \in WrittenResponses :
          \E generated \in {safeParseJSON(text)} :
          \E news \in {MapWritten(generated)} :
             /\ response' = Str(text)
             /\ IF generated.kind = "return" /\ generated.v.v = <<>>
                THEN /\ hasMore' = FALSE
                     /\ batch' = Undefined
                     /\ gpc' = "done"
                     /\ UNCHANGED allQuestions
                ELSE IF news.kind = "throw"
                THEN /\ hasMore' = FALSE
                     /\ batch' = Undefined
                     /\ gpc' = "loop"
                     /\ UNCHANGED allQuestions
                ELSE /\ allQuestions' = allQuestions + Len(news.v.v)
                     /\ batch' = news.v
                     /\ hasMore' = IF Len(generated.v.v) < FullWrittenBatch THEN FALSE
                                   ELSE hasMore
                     /\ gpc' = "loop"
    /\ UNCHANGED <<streak, op, examType, aborted, retryCount, iteration>>
    /\ UNCHANGED <<helperVars, appVars, chatVars>>

\* the request rejected: catch (error) { hasMore = false; }
generateWrittenQuestions_Rejected ==
    /\ op = "generateWrittenQuestions"
    /\ gpc = "await"
    /\ response' = Rejected
    /\ batch' = Undefined
    /\ hasMore' = FALSE
    /\ gpc' = "loop"
    /\ UNCHANGED <<streak, op, examType, aborted, retryCount, iteration, allQuestions>>
    /\ UNCHANGED <<helperVars, appVars, chatVars>>

GenNext ==
    \/ Abort
    \/ extractQuestions_Loop
    \/ extractQuestions_Resolved
    \/ extractQuestions_Rejected
    \/ generateQuestionsFromSlides_Loop
    \/ generateQuestionsFromSlides_Resolved
    \/ generateQuestionsFromSlides_Rejected
    \/ generateStudyNotes_Request
    \/ generateStudyNotes_Resolved
    \/ generateStudyNotes_Rejected
    \/ generateWrittenQuestions_Loop
    \/ generateWrittenQuestions_Resolved
    \/ generateWrittenQuestions_Rejected

GenSpec == GenInit /\ [][GenNext]_vars

\* extractQuestions on its own, with a signal that is never aborted; the
\* event loop runs the head of the loop, and every request settles
ExtractInit == GenInit /\ op = "extractQuestions"

ExtractNext ==
    \/ extractQuestions_Loop
    \/ extractQuestions_Resolved
    \/ extractQuestions_Rejected

ExtractSpec ==
    /\ ExtractInit
    /\ [][ExtractNext]_vars
    /\ WF_vars(extractQuestions_Loop)
    /\ WF_vars(extractQuestions_Resolved \/ extractQuestions_Rejected)

----------------------------------------------------------------------------
(* The tutor chat: AIChat.  A call of streamResponse is an entry of streams  *)
(* from its await of sendMessageStream to its finally block.                 *)

MaxChunks == 2      \* chunks of one response stream
MaxMessages == 8    \* messages of the list

\* no helper is called on its own
NoHelperCall ==
    /\ fn = "none"
    /\ arg = Undefined
    /\ family = Family("none", "none", <<>>)
    /\ intended = Undefined
    /\ pc = "idle"
    /\ ret = NoCompletion
    /\ applied = <<>>

\* a ChatMessage; a message built without isStreaming has it undefined,
\* which every test of the component reads as false
Message(role, text, isStreaming) ==
    [role |-> role, text |-> text, isStreaming |-> isStreaming]

\* { role: 'model', text: '', isStreaming: true }
Placeholder == Message("model", <<>>, TRUE)
\* the two error messages and a message of the user
InitFailed == Message("model", <<"disconnected">>, FALSE)
StreamFailed == Message("model", <<"failed">>, FALSE)
UserMessage == Message("user", <<"userText">>, FALSE)

\* a sequence without its i-th entry
Without(seq, i) == SubSeq(seq, 1, i - 1) \o SubSeq(seq, i + 1, Len(seq))

ChatInit == NoHelperCall /\ NoGeneration /\ AppInitial /\ ChatInitial

\* initChat, createTutoringChat returned: streamResponse(initialPrompt) runs
\* up to its await
initChat ==
    /\ chatSession = "pending"
    /\ chatSession' = "chat"
    /\ isLoading' = TRUE
    /\ messages' = <<Placeholder>>
    /\ streams' = Append(streams, [at |-> "sendMessageStream", fullText |-> <<>>])
    /\ UNCHANGED <<helperVars, genVars, appVars>>

\* initChat, createTutoringChat raised: catch and finally
initChat_Catch ==
    /\ chatSession = "pending"
    /\ chatSession' = "null"
    /\ messages' = <<InitFailed>>
    /\ isLoading' = FALSE
    /\ UNCHANGED streams
    /\ UNCHANGED <<helperVars, genVars, appVars>>

\* handleSend with a non-blank input, and streamResponse(userText) up to its
\* await; streamResponse returns at once without a chat session
handleSend ==
    /\ chatSession # "pending"
    /\ ~isLoading
    /\ Len(messages) + 3 <= MaxMessages
    /\ IF chatSession = "chat"
       THEN /\ messages' = messages \o <<UserMessage, Placeholder>>
            /\ isLoading' = TRUE
            /\ streams' = Append(streams, [at |-> "sendMessageStream", fullText |-> <<>>])
       ELSE /\ messages' = Append(messages, UserMessage)
            /\ UNCHANGED <<isLoading, streams>>
    /\ UNCHANGED chatSession
    /\ UNCHANGED <<helperVars, genVars, appVars>>

\* await sendMessageStream resolved: the for await loop waits for a chunk
sendMessageStream_Resolved ==
    \E i \in 1..Len(streams) :
        /\ streams[i].at = "sendMessageStream"
        /\ streams' = [streams EXCEPT ![i].at = "chunk"]
        /\ UNCHANGED <<messages, isLoading, chatSession>>
        /\ UNCHANGED <<helperVars, genVars, appVars>>

\* a chunk arrived: the last message takes the text so far if it is the
\* streaming placeholder
streamResponse_Chunk ==
    \E i \in 1..Len(streams) :
        LET fullText == Append(streams[i].fullText, "chunk")
            lastMsg == messages[Len(messages)]
        IN /\ streams[i].at = "chunk"
           /\ Len(streams[i].fullText) < MaxChunks
           /\ streams' = [streams EXCEPT ![i].fullText = fullText]
           /\ messages' = IF lastMsg.role = "model" /\ lastMsg.isStreaming
                          THEN [messages EXCEPT ![Len(messages)].text = fullText]
                          ELSE messages
           /\ UNCHANGED <<isLoading, chatSession>>
           /\ UNCHANGED <<helperVars, genVars, appVars>>

\* the stream ended: the last message is finalised; finally
streamResponse_End ==
    \E i \in 1..Len(streams) :
        /\ streams[i].at = "chunk"
        /\ messages' = [messages EXCEPT ![Len(messages)].isStreaming = FALSE]
        /\ isLoading' = FALSE
        /\ streams' = Without(streams, i)
        /\ UNCHANGED chatSession
        /\ UNCHANGED <<helperVars, genVars, appVars>>

\* sendMessageStream rejected or the stream broke: catch appends the error
\* message; finally
streamResponse_Catch ==
    \E i \in 1..Len(streams) :
        /\ messages' = Append(messages, StreamFailed)
        /\ isLoading' = FALSE
        /\ streams' = Without(streams, i)
        /\ UNCHANGED chatSession
        /\ UNCHANGED <<helperVars, genVars, appVars>>

ChatNext ==
    \/ initChat
    \/ initChat_Catch
    \/ handleSend
    \/ sendMessageStream_Resolved
    \/ streamResponse_Chunk
    \/ streamResponse_End
    \/ streamResponse_Catch

ChatSpec == ChatInit /\ [][ChatNext]_vars

----------------------------------------------------------------------------
(* The application: App.  A call of handleFileUpload is an entry of uploads  *)
(* that stands at one of its awaits; the code between two awaits is one      *)
(* step.  A state updater (prev => ...) reads the state of the moment it     *)
(* runs, the rest of a handler reads the closure of the call.                *)

MaxUploads == 2     \* calls of handleFileUpload
MaxFiles == 2       \* files of one upload
MaxBatch == 1       \* records of one decoded response
MaxClock == 1       \* milliseconds the clock advances
MaxRandom == 1      \* largest value of Math.floor(Math.random() * 1000000) drawn
MaxTime == 1        \* seconds the timer counts on one question
RandomScale == 1000000

UploadModes == {"extract", "generate", "notes", "written"}

\* the options of a decoded question: two texts, or an empty text and a text
OptionLists == { <<"A", "B">>, <<"", "A">> }

\* Math.floor(Date.now() + Math.random() * 1000000)
generateUniqueId(random) == now + random
RandomDraws == {r \in 0..MaxRandom : r < RandomScale}

\* the sizes of the batches that arrive: none of them is a full batch, so
\* extractQuestions and generateWrittenQuestions end with the batch
BatchSizes == {n \in 0..MaxBatch : n < FullWrittenBatch /\ n < FullBatch}

\* a record of one of the lists, with the upload whose callback appended it
Record(id, k, options) == [id |-> id, upload |-> k, options |-> options]

\* the view an upload mode leads to
View(mode) ==
    CASE mode = "notes" -> "NOTES_VIEW"
      [] mode = "written" -> "WRITTEN_VIEW"
      [] OTHER -> "SETUP"

\* userAnswers[qId] is truthy
Answered(qId) == qId \in DOMAIN userAnswers /\ userAnswers[qId] # ""

\* { ...prev, [k]: value }
Put(f, k, value) == [x \in DOMAIN f \cup {k} |-> IF x = k THEN value ELSE f[x]]

\* questions[currentQIndex] is defined
OnDisplay == currentQIndex >= 0 /\ currentQIndex < Len(questions)
CurrentQuestion == questions[currentQIndex + 1]

\* abortControllerRef.current.abort()
AbortCurrent(calls) ==
    [k \in 1..Len(calls) |->
        IF k = Len(calls) THEN [calls[k] EXCEPT !.aborted = TRUE] ELSE calls[k]]

AppInit == NoHelperCall /\ NoGeneration /\ AppInitial /\ ChatInitial

\* handleFileUpload with at least one file, up to its first await
handleFileUpload ==
    /\ step = "UPLOAD"
    /\ ~isProcessing
    /\ Len(uploads) < MaxUploads
    /\ \E files \in 1..MaxFiles :
          uploads' = Append(AbortCurrent(uploads),
                            [uploadMode |-> uploadMode, aborted |-> FALSE,
                             hasGeneratedData |-> FALSE, i |-> 0, files |-> files,
                             at |-> "fileToGenerativePart", retryCount |-> 0])
    /\ questions' = <<>>
    /\ notes' = <<>>
    /\ writtenQuestions' = <<>>
    /\ isProcessing' = TRUE
    /\ isBackgroundExtracting' = TRUE
    /\ UNCHANGED <<step, uploadMode, currentQIndex, userAnswers, answerTimes, timeSpent, now>>
    /\ UNCHANGED <<helperVars, genVars, chatVars>>

\* the generation operation of upload k returned: the for loop takes the
\* next file unless the signal is aborted, else lines 102-113 run
FileLoop(k, u) ==
    IF u.i + 1 < u.files /\ ~u.aborted
    THEN /\ uploads' = [uploads EXCEPT ![k] = [u EXCEPT !.i = u.i + 1,
                                                        !.at = "fileToGenerativePart"]]
         /\ UNCHANGED <<step, isProcessing, isBackgroundExtracting>>
    ELSE /\ uploads' = [uploads EXCEPT ![k] = [u EXCEPT !.at = "ended"]]
         /\ isBackgroundExtracting' = FALSE
         /\ isProcessing' = FALSE
         /\ step' = IF step = "UPLOAD" /\ u.hasGeneratedData THEN View(u.uploadMode)
                    ELSE step

\* catch (err) of handleFileUpload, err no AbortError
UploadCatch(k) ==
    /\ uploads' = [uploads EXCEPT ![k].at = "ended"]
    /\ isProcessing' = FALSE
    /\ isBackgroundExtracting' = FALSE
    /\ UNCHANGED step

\* a round of upload k without a batch: extractQuestions counts it and asks
\* again unless it was the third or the signal is aborted, the two other
\* loops end
Unproductive(k, u) ==
    IF u.uploadMode = "extract" /\ u.retryCount + 1 < MAX_RETRIES /\ ~u.aborted
    THEN /\ uploads' = [uploads EXCEPT ![k].retryCount = u.retryCount + 1]
         /\ UNCHANGED <<step, isProcessing, isBackgroundExtracting>>
    ELSE FileLoop(k, u)

\* await fileToGenerativePart resolved: the generation operation is called
\* and runs up to its await; the three loops return at once when the signal
\* is aborted, generateStudyNotes does not read it
fileToGenerativePart_Resolved ==
    \E k \in 1..Len(uploads) :
        /\ uploads[k].at = "fileToGenerativePart"
        /\ IF uploads[k].uploadMode # "notes" /\ uploads[k].aborted
           THEN FileLoop(k, uploads[k])
           ELSE /\ uploads' = [uploads EXCEPT ![k].at = "generateContent",
                                              ![k].retryCount = 0]
                /\ UNCHANGED <<step, isProcessing, isBackgroundExtracting>>
        /\ UNCHANGED <<uploadMode, questions, notes, writtenQuestions, currentQIndex,
                       userAnswers, answerTimes, timeSpent, now>>
        /\ UNCHANGED <<helperVars, genVars, chatVars>>

\* await fileToGenerativePart rejected, or getClient raised
fileToGenerativePart_Rejected ==
    \E k \in 1..Len(uploads) :
        /\ uploads[k].at = "fileToGenerativePart"
        /\ UploadCatch(k)
        /\ UNCHANGED <<uploadMode, questions, notes, writtenQuestions, currentQIndex,
                       userAnswers, answerTimes, timeSpent, now>>
        /\ UNCHANGED <<helperVars, genVars, chatVars>>

\* await generateContent of upload k resolved with n records: the operation
\* hands them to the callback of the upload, which appends them to the list
\* of its mode, and returns
generateContent_Resolved ==
    \E k \in 1..Len(uploads), n \in BatchSizes :
    \E draws \in [1..n -> RandomDraws], options \in OptionLists :
        LET u == uploads[k]
            newBatch == [j \in 1..n |-> Record(generateUniqueId(draws[j]), k,
                                               IF u.uploadMode \in {"extract", "generate"}
                                               THEN options ELSE <<>>)]
            delivered == [u EXCEPT !.hasGeneratedData = TRUE, !.retryCount = 0]
        IN /\ u.at = "generateContent"
           /\ n = 0 => options = <<"A", "B">>
           /\ u.uploadMode \in {"notes", "written"} => options = <<"A", "B">>
           /\ IF n = 0
              THEN /\ IF u.uploadMode = "notes" THEN FileLoop(k, u) ELSE Unproductive(k, u)
                   /\ UNCHANGED <<questions, notes, writtenQuestions>>
              ELSE /\ FileLoop(k, delivered)
                   /\ CASE u.uploadMode = "notes" ->
                              /\ notes' = notes \o newBatch
                              /\ UNCHANGED <<questions, writtenQuestions>>
                        [] u.uploadMode = "written" ->
                              /\ writtenQuestions' = writtenQuestions \o newBatch
                              /\ UNCHANGED <<questions, notes>>
                        [] OTHER ->
                              /\ questions' = questions \o newBatch
                              /\ UNCHANGED <<notes, writtenQuestions>>
           /\ UNCHANGED <<uploadMode, currentQIndex, userAnswers, answerTimes, timeSpent, now>>
           /\ UNCHANGED <<helperVars, genVars, chatVars>>

\* await generateContent of upload k rejected: the three loops catch the
\* error, generateStudyNotes lets it reach the catch of handleFileUpload
generateContent_Rejected ==
    \E k \in 1..Len(uploads) :
        /\ uploads[k].at = "generateContent"
        /\ IF uploads[k].uploadMode = "notes" THEN UploadCatch(k)
           ELSE Unproductive(k, uploads[k])
        /\ UNCHANGED <<uploadMode, questions, notes, writtenQuestions, currentQIndex,
                       userAnswers, answerTimes, timeSpent, now>>
        /\ UNCHANGED <<helperVars, genVars, chatVars>>

\* a mode button of the upload view
setUploadMode ==
    /\ step = "UPLOAD"
    /\ \E mode \in UploadModes \ {uploadMode} : uploadMode' = mode
    /\ UNCHANGED <<step, questions, notes, writtenQuestions, currentQIndex, userAnswers,
                   answerTimes, timeSpent, isProcessing, isBackgroundExtracting, uploads, now>>
    /\ UNCHANGED <<helperVars, genVars, chatVars>>

\* the button of line 352, shown while processing once a question is there
startQuizWhileExtracting ==
    /\ step = "UPLOAD"
    /\ isProcessing
    /\ Len(questions) > 0
    /\ uploadMode \notin {"notes", "written"}
    /\ isProcessing' = FALSE
    /\ step' = View(uploadMode)
    /\ UNCHANGED <<uploadMode, questions, notes, writtenQuestions, currentQIndex, userAnswers,
                   answerTimes, timeSpent, isBackgroundExtracting, uploads, now>>
    /\ UNCHANGED <<helperVars, genVars, chatVars>>

\* the button of the setup view and of the results view
startExam ==
    /\ step \in {"SETUP", "RESULTS"}
    /\ currentQIndex' = 0
    /\ userAnswers' = <<>>
    /\ answerTimes' = <<>>
    /\ timeSpent' = 0
    /\ step' = "EXAM"
    /\ UNCHANGED <<uploadMode, questions, notes, writtenQuestions, isProcessing,
                   isBackgroundExtracting, uploads, now>>
    /\ UNCHANGED <<helperVars, genVars, chatVars>>

\* the button of line 427, shown on the last question
submitExam ==
    /\ step = "EXAM"
    /\ OnDisplay
    /\ ~(currentQIndex < Len(questions) - 1)
    /\ isBackgroundExtracting' = FALSE
    /\ uploads' = AbortCurrent(uploads)
    /\ step' = "RESULTS"
    /\ UNCHANGED <<uploadMode, questions, notes, writtenQuestions, currentQIndex, userAnswers,
                   answerTimes, timeSpent, isProcessing, now>>
    /\ UNCHANGED <<helperVars, genVars, chatVars>>

\* the buttons of lines 422 and 425
changeQuestion ==
    /\ step = "EXAM"
    /\ OnDisplay
    /\ \/ currentQIndex # 0 /\ currentQIndex' = currentQIndex - 1
       \/ currentQIndex < Len(questions) - 1 /\ currentQIndex' = currentQIndex + 1
    /\ timeSpent' = 0
    /\ UNCHANGED <<step, uploadMode, questions, notes, writtenQuestions, userAnswers,
                   answerTimes, isProcessing, isBackgroundExtracting, uploads, now>>
    /\ UNCHANGED <<helperVars, genVars, chatVars>>

\* the header and the buttons of lines 465, 499 and 530
goToUpload ==
    /\ step # "UPLOAD"
    /\ step' = "UPLOAD"
    /\ UNCHANGED <<uploadMode, questions, notes, writtenQuestions, currentQIndex, userAnswers,
                   answerTimes, timeSpent, isProcessing, isBackgroundExtracting, uploads, now>>
    /\ UNCHANGED <<helperVars, genVars, chatVars>>

\* handleAnswerSelect(q.id, option) for an option of the question on display
handleAnswerSelect ==
    /\ step = "EXAM"
    /\ OnDisplay
    /\ \E j \in 1..Len(CurrentQuestion.options) :
          IF Answered(CurrentQuestion.id)
          THEN UNCHANGED <<userAnswers, answerTimes>>
          ELSE /\ answerTimes' = Put(answerTimes, CurrentQuestion.id, timeSpent)
               /\ userAnswers' = Put(userAnswers, CurrentQuestion.id,
                                     CurrentQuestion.options[j])
    /\ UNCHANGED <<step, uploadMode, questions, notes, writtenQuestions, currentQIndex,
                   timeSpent, isProcessing, isBackgroundExtracting, uploads, now>>
    /\ UNCHANGED <<helperVars, genVars, chatVars>>

\* the interval of line 131 fires: it runs while the question on display has
\* no truthy answer
timer ==
    /\ step = "EXAM"
    /\ OnDisplay
    /\ ~Answered(CurrentQuestion.id)
    /\ timeSpent < MaxTime
    /\ timeSpent' = timeSpent + 1
    /\ UNCHANGED <<step, uploadMode, questions, notes, writtenQuestions, currentQIndex,
                   userAnswers, answerTimes, isProcessing, isBackgroundExtracting, uploads, now>>
    /\ UNCHANGED <<helperVars, genVars, chatVars>>

\* the clock advances
clock ==
    /\ now < MaxClock
    /\ now' = now + 1
    /\ UNCHANGED <<step, uploadMode, questions, notes, writtenQuestions, currentQIndex,
                   userAnswers, answerTimes, timeSpent, isProcessing, isBackgroundExtracting,
                   uploads>>
    /\ UNCHANGED <<helperVars, genVars, chatVars>>

\* uploads and navigation: no guard of these steps reads userAnswers,
\* answerTimes or timeSpent
UploadNext ==
    \/ handleFileUpload
    \/ fileToGenerativePart_Resolved
    \/ fileToGenerativePart_Rejected
    \/ generateContent_Resolved
    \/ generateContent_Rejected
    \/ setUploadMode
    \/ startQuizWhileExtracting
    \/ startExam
    \/ submitExam
    \/ changeQuestion
    \/ goToUpload
    \/ clock

UploadSpec == AppInit /\ [][UploadNext]_vars

\* the setup view after an upload of one file in extract mode that brought
\* two questions
ExamInit ==
    /\ NoHelperCall /\ NoGeneration /\ ChatInitial
    /\ now = 0
    /\ step = "SETUP"
    /\ uploadMode = "extract"
    /\ \E draws \in [1..2 -> RandomDraws], options \in [1..2 -> OptionLists] :
          questions = [j \in 1..2 |-> Record(generateUniqueId(draws[j]), 1, options[j])]
    /\ notes = <<>>
    /\ writtenQuestions = <<>>
    /\ currentQIndex = 0
    /\ userAnswers = <<>>
    /\ answerTimes = <<>>
    /\ timeSpent = 0
    /\ isProcessing = FALSE
    /\ isBackgroundExtracting = FALSE
    /\ uploads = <<[uploadMode |-> "extract", aborted |-> FALSE, hasGeneratedData |-> TRUE,
                    i |-> 0, files |-> 1, at |-> "ended", retryCount |-> 0]>>

\* the exam on the questions of a finished upload
ExamNext ==
    \/ startExam
    \/ handleAnswerSelect
    \/ timer
    \/ changeQuestion
    \/ submitExam

ExamSpec == ExamInit /\ [][ExamNext]_vars

----------------------------------------------------------------------------
(* Properties of safeParseJSON *)

Recovered == fn = "safeParseJSON" /\ pc = "returned"

StrictOk == JSONParse(arg.v).ok
RepairOk == LastObjectEnd(arg.v) # -1 /\ JSONParse(Repaired(arg.v)).ok

\* C1: safeParseJSON never raises: for every input text it returns an array,
\* and the array is empty whenever neither the strict decoding nor the
\* decoding of the repaired text succeeded (no '},' found, or the second
\* decoding failed).
C1_RecoverNeverRaises ==
    Recovered =>
        /\ ret.kind = "return"
        /\ ret.v.t = "array"
        /\ (~StrictOk /\ ~RepairOk => ret.v = EmptyArray)

\* a text with a '[' and a '},' whose strict and second decodings both fail
C1_Witness ==
    /\ Recovered
    /\ ~StrictOk
    /\ IndexOf(arg.v, <<"[">>) # -1
    /\ LastObjectEnd(arg.v) # -1
    /\ ~JSONParse(Repaired(arg.v)).ok
    /\ ret = Return(EmptyArray)

\* C2: for every input that is a valid encoding of an array, safeParseJSON
\* returns exactly the encoded array: same elements, same order, same length,
\* the empty array included.
C2_ArrayIdentity ==
    Recovered /\ family.name = "array" => ret = Return(intended)

\* an encoded array of two different elements came back as it was sent
C2_Witness ==
    /\ Recovered
    /\ family.name = "array"
    /\ Len(intended.v) >= 2
    /\ intended.v[1] # intended.v[2]
    /\ family.style = "spaced"
    /\ ret = Return(intended)

\* C3: for every input that is a valid encoding of an object with exactly one
\* array-valued field, safeParseJSON returns that field's array, whatever the
\* other fields hold and wherever the field is placed.
C3_ObjectField ==
    Recovered /\ family.name = "object" => ret = Return(intended)

\* the array field is enumerated after two other fields, one of them an
\* object that holds an array itself
C3_Witness ==
    /\ Recovered
    /\ family.name = "object"
    /\ Len(JSONParse(arg.v).v.v) = 3
    /\ JSONParse(arg.v).v.v[3].k = ArrayKey
    /\ \E i \in 1..2 : JSONParse(arg.v).v.v[i].v.t = "object"
    /\ intended.v # <<>>
    /\ ret = Return(intended)

\* the '},' that ends the last complete record is the last '},' of the text:
\* the comma follows the closing brace at once and the cut record holds no '},'
SeparatorEndsLastRecord ==
    LET head == TrimEnd(SubSeq(arg.v, 1, Len(arg.v) - Len(family.tail)))
    IN /\ OccursAt(head, <<"}", ",">>, Len(head) - 1)
       /\ IndexOf(family.tail, <<"}", ",">>) = -1

C5_GarbageEmpty ==
    /\ Recovered
    /\ ~StrictOk
    /\ (IndexOf(arg.v, <<"[">>) = -1 \/ IndexOf(arg.v, <<"}", ",">>) = -1)
    => ret = Return(EmptyArray)

\* a text without '[' whose '},' led to a second decoding, which failed
C5_Witness ==
    /\ Recovered
    /\ ~StrictOk
    /\ IndexOf(arg.v, <<"[">>) = -1
    /\ LastObjectEnd(arg.v) # -1
    /\ ret = Return(EmptyArray)

----------------------------------------------------------------------------
(* Properties of cleanLatex *)

Cleaned == fn = "cleanLatex" /\ Len(applied) >= 1

\* C6: cleanLatex is total: it never raises, it returns a string for every
\* argument, and the empty string for every argument that is not a string.
C6_SanitizeTotal ==
    Cleaned =>
        /\ \A i \in 1..Len(applied) :
              applied[i].kind = "return" /\ applied[i].v.t = "string"
        /\ (arg.t # "string" => applied[1] = Return(Str(<<>>)))

\* an object was passed and the empty string came back
C6_Witness ==
    /\ Cleaned
    /\ arg.t = "object"
    /\ arg.v # <<>>
    /\ ret = Return(Str(<<>>))

\* C7 as stated: for every x that cleanLatex returned,
\* cleanLatex(cleanLatex(x)) = cleanLatex(x).
\* applied[1] is x, applied[2] is cleanLatex(x), applied[3] cleanLatex(cleanLatex(x)).
C7_IdempotentOnOutputs ==
    fn = "cleanLatex" /\ Len(applied) >= 3 => applied[3] = applied[2]

\* C8: a bare 'imes' between two digits, with any whitespace around it, becomes
\* '<d1> \times <d2>': one \times, a single space on each side, no bare 'imes'.
C8_ImesBetweenDigits ==
    Cleaned /\ family.name = "imes" => applied[1] = Return(intended)

\* a tab and a newline stood before 'imes', nothing behind it
C8_Witness ==
    /\ Cleaned
    /\ family.name = "imes"
    /\ arg.v[2] = TAB
    /\ arg.v[3] = LF
    /\ arg.v[Len(arg.v) - 1] = "s"
    /\ applied[1] = Return(intended)

NoPatternOccurs(s) ==
    \A k \in 1..Len(RuleChain), i \in 1..Len(s) : MatchEnd(RuleChain[k], s, i) = 0

\* C12: for every string in which no pattern of the rules occurs, cleanLatex
\* returns the string character for character.
C12_UnmatchedUnchanged ==
    Cleaned /\ arg.t = "string" /\ NoPatternOccurs(arg.v) => applied[1] = Return(arg)

\* a text with 'mu' behind a space, a token no rule matches without a digit
\* before it, came back as it was
C12_Witness ==
    /\ Cleaned
    /\ arg.t = "string"
    /\ NoPatternOccurs(arg.v)
    /\ Len(arg.v) >= 4
    /\ arg.v[1] = " "
    /\ IndexOf(arg.v, <<"m", "u">>) # -1
    /\ applied[1] = Return(arg)

\* the place of member i in the enumeration of an object written with these
\* members: index keys first, ascending, then the other keys as written
EnumerationRank(members, i) ==
    LET indexed == {j \in 1..Len(members) : IsIndexKey(members[j].k)}
    IN IF i \in indexed
       THEN Cardinality({j \in indexed : KeyNum(members[j].k) < KeyNum(members[i].k)})
       ELSE Cardinality(indexed) + Cardinality({j \in 1..(i - 1) : j \notin indexed})

\* the first array among the members in enumeration order, the empty array
\* when no member holds an array
FirstArrayEnumerated(members) ==
    LET arrays == {i \in 1..Len(members) : members[i].v.t = "array"}
    IN IF arrays = {} THEN EmptyArray
       ELSE members[CHOOSE i \in arrays : \A j \in arrays :
                        EnumerationRank(members, i) <= EnumerationRank(members, j)].v

\* C13: for every valid encoding of an object, safeParseJSON returns the first
\* array among the object's values in enumeration order, also when several
\* values are arrays and when that first array is empty, and the empty array
\* when no value is an array.
C13_FirstArrayOfObject ==
    Recovered /\ family.name = "keyed"
        => ret = Return(FirstArrayEnumerated(intended.v))

\* the object was written with a non-empty array first, then an empty array,
\* then an array under an index key: the array under the index key came back
C13_Witness ==
    /\ Recovered
    /\ family.name = "keyed"
    /\ Len(intended.v) = 3
    /\ intended.v[1].v.t = "array" /\ intended.v[1].v.v # <<>>
    /\ intended.v[2].v = EmptyArray
    /\ IsIndexKey(intended.v[3].k)
    /\ ret = Return(intended.v[3].v)

\* the input is a preamble without '[' followed by a body that starts with
\* '['; family.tail is the body, intended the complete records of the body
BehindPreamble == Recovered /\ family.name \in {"preamble", "preamble_cut"}

\* the decoding of the body cut after its last '}' that a ',' follows and
\* closed by ']'; the empty array without such a '}' or when the decoding fails
DecodedToLastSeparator(body) ==
    LET last == LastIndexOf(body, <<"}", ",">>)
        closed == SubstringTo(body, last + 1) \o <<"]">>
    IN IF last # -1 /\ JSONParse(closed).ok THEN JSONParse(closed).v ELSE EmptyArray

\* C14 as stated: when the strict decoding fails, safeParseJSON drops what
\* stands before the first '[', cuts the rest at the end of its last complete
\* record, closes it by ']' and returns the decoding: the complete records of
\* the body, whatever the preamble.
C14_CutAtLastCompleteRecord ==
    BehindPreamble /\ ~StrictOk => ret = Return(intended)

\* C14, amended: when the strict decoding fails, safeParseJSON drops what
\* stands before the first '[', cuts the rest after its last '}' that a ','
\* follows at once, closes it by ']' and returns the decoding of that text, the
\* empty array when there is no such '}' or the decoding fails; the result is
\* the one the body alone determines, whatever the preamble.
C14_CutAtLastSeparator ==
    BehindPreamble /\ ~StrictOk => ret = Return(DecodedToLastSeparator(family.tail))

\* behind a heading line, two complete records and a cut third one: the two
\* records came back
C14_Witness ==
    /\ BehindPreamble
    /\ ~StrictOk
    /\ family.name = "preamble_cut"
    /\ arg.v[1] = "J"
    /\ Len(intended.v) = 2
    /\ ret = Return(intended)
    /\ ret = Return(DecodedToLastSeparator(family.tail))

\* no string value of the cut text holds '},': the records are flat, so a
\* '},' inside the encoding of a record can only stand in one of its strings
NoSeparatorInStrings ==
    /\ \A i \in 1..Len(intended.v) :
          IndexOf(Stringify(intended.v[i], "compact"), <<"}", ",">>) = -1
    /\ IndexOf(family.tail, <<"}", ",">>) = -1

\* the ',' stands right behind the '}' of the last complete record
CommaFollowsBrace ==
    LET head == TrimEnd(SubSeq(arg.v, 1, Len(arg.v) - Len(family.tail)))
    IN OccursAt(head, <<"}", ",">>, Len(head) - 1)

\* C15 as stated: for every truncated array text of n >= 1 complete flat
\* records and a truncated record, no string of which holds '},',
\* safeParseJSON returns exactly the n records.
C15_FlatAsStated ==
    Recovered /\ family.name = "truncated" /\ NoSeparatorInStrings
        => ret = Return(intended)

\* C15, amended: for every truncated array text of n >= 1 complete flat
\* records and a truncated record, safeParseJSON returns exactly the n records
\* provided no string holds '},' and the ',' stands right behind the '}' of
\* the last complete record; the n records are lost only when the truncated
\* record holds '},' in a string or whitespace parts that '}' from its ','.
C15_FlatRecovered ==
    Recovered /\ family.name = "truncated" =>
        /\ (NoSeparatorInStrings /\ CommaFollowsBrace =>
               ret = Return(intended) /\ Len(ret.v.v) >= 1)
        /\ (ret # Return(intended) =>
               IndexOf(family.tail, <<"}", ",">>) # -1 \/ ~CommaFollowsBrace)

\* two flat records written with a space behind each ',' and the beginning of
\* a third: the two came back
C15_Witness ==
    /\ Recovered
    /\ family.name = "truncated"
    /\ family.style = "spaced"
    /\ NoSeparatorInStrings
    /\ CommaFollowsBrace
    /\ Len(intended.v) = 2
    /\ Len(family.tail) > 5
    /\ ret = Return(intended)

\* the text after the first k rules of the chain
Stage(k, s) == ApplyChain(SubSeq(RuleChain, 1, k), s)

\* the number of places of s where the rule's pattern matches
MatchCount(rule, s) == Cardinality({i \in 1..Len(s) : MatchEnd(rule, s, i) # 0})

\* C16 as stated: for every input, no rule of the chain creates an occurrence
\* of the pattern of a rule before it: applying rule m never raises the number
\* of matches of the pattern of a rule j < m.
C16_NoPatternReintroduced ==
    Cleaned /\ arg.t = "string" /\ Len(applied) = 1 =>
        \A m \in 2..Len(RuleChain) : \A j \in 1..(m - 1) :
            MatchCount(RuleChain[j], Stage(m, arg.v))
                <= MatchCount(RuleChain[j], Stage(m - 1, arg.v))

\* s with every backslash-t pair and every tab replaced by one space and every
\* backslash-n pair by a newline, in one pass from the left
RECURSIVE NormaliseFrom(_, _)
NormaliseFrom(s, i) ==
    IF i > Len(s) THEN <<>>
    ELSE IF OccursAt(s, <<BS, "t">>, i) THEN <<" ">> \o NormaliseFrom(s, i + 2)
    ELSE IF OccursAt(s, <<BS, "n">>, i) THEN <<LF>> \o NormaliseFrom(s, i + 2)
    ELSE IF s[i] = TAB THEN <<" ">> \o NormaliseFrom(s, i + 1)
    ELSE <<s[i]>> \o NormaliseFrom(s, i + 1)

Normalised(s) == NormaliseFrom(s, 1)

\* the rules of the chain other than the three that normalise escapes and tabs
OtherRules == SelectSeq(RuleChain, LAMBDA r : r \notin {"bs_t", "tab", "bs_n"})

\* C17: cleanLatex first replaces every backslash-t pair and every tab by one
\* space and every backslash-n pair by a newline, and only then applies its
\* other rules: the result is that of the other rules on the normalised text.
C17_EscapesNormalisedFirst ==
    Cleaned /\ arg.t = "string"
        => applied[1] = Return(Str(ApplyChain(OtherRules, Normalised(arg.v))))

\* a backslash-t pair, a tab and a backslash-n pair came back as two spaces
\* and a newline
C17_Witness ==
    /\ Cleaned
    /\ arg = Str(<<BS, "t", TAB, BS, "n">>)
    /\ Normalised(arg.v) = <<" ", " ", LF>>
    /\ applied[1] = Return(Str(<<" ", " ", LF>>))

\* C18 as stated: for every command c of \uparrow, \downarrow, \rightarrow and
\* \to, cleanLatex rewrites '{c}' and '{{c}}', with or without whitespace
\* inside the braces, to the bare command c.
C18_ArrowBracesCollapsed ==
    Cleaned /\ family.name = "arrow" => applied[1] = Return(intended)

\* C19: in a text of chemistry tokens cleanLatex rewrites every 'Ksp' to
\* 'K_{sp}' and every 'Ca(OH)2' to 'Ca(OH)_2', leaves the tokens already in
\* canonical form as they are, and every further application returns the same
\* text.
C19_ChemistryCanonical ==
    Cleaned /\ family.name = "chem" =>
        /\ applied[1] = Return(intended)
        /\ \A i \in 2..Len(applied) : applied[i] = applied[1]

\* 'Ksp', 'Ca(OH)2' and a canonical token were rewritten once and then came
\* back unchanged twice
C19_Witness ==
    /\ Cleaned
    /\ family.name = "chem"
    /\ IndexOf(arg.v, LiteralPattern("Ksp")) # -1
    /\ IndexOf(arg.v, LiteralPattern("CaOH2")) # -1
    /\ IndexOf(arg.v, <<"_">>) # -1
    /\ Len(applied) = 3
    /\ applied[1] = Return(intended)
    /\ applied[1] # Return(arg)
    /\ applied[3] = applied[1]

----------------------------------------------------------------------------
(* Properties of the generation operations *)

\* the last request resolved with a text and onBatch was called with a batch
Delivered == response.t = "string" /\ batch.t = "array"

\* the records safeParseJSON decoded from the text of the last response
Decoded == safeParseJSON(response.v).v.v

\* every option of the delivered record is the cleaned option of the decoded one
OptionsSanitized(out, raw) ==
    Get(out, <<"o", "p", "t", "i", "o", "n", "s">>)
        = Arr([j \in 1..Len(Get(raw, <<"o">>).v) |-> Sanitized(Get(raw, <<"o">>).v[j])])

\* C11 as stated: in each of the four operations the batch handed to onBatch
\* holds one record per record that safeParseJSON decoded from the response,
\* and every free-text field of it is what cleanLatex returns for the decoded
\* field: question text (behind its label for slides), each option, answer,
\* note title, note content, subject, written question and written answer.
C11_EveryTextFieldSanitized ==
    Delivered =>
        /\ Len(batch.v) = Len(Decoded)
        /\ \A i \in 1..Len(batch.v) :
              LET out == batch.v[i]
                  raw == Decoded[i]
              IN CASE op = "extractQuestions" ->
                        /\ Get(out, <<"t", "e", "x", "t">>) = Sanitized(Get(raw, <<"q">>))
                        /\ OptionsSanitized(out, raw)
                        /\ Get(out, <<"c", "o", "r", "r", "e", "c", "t", "A", "n", "s", "w", "e", "r">>)
                               = Sanitized(Get(raw, <<"a">>))
                   [] op = "generateQuestionsFromSlides" ->
                        /\ Get(out, <<"t", "e", "x", "t">>)
                               = Sanitized(Str(<<"[">> \o BatchLabel(examType) \o <<"]", " ">>
                                                   \o Get(raw, <<"q">>).v))
                        /\ OptionsSanitized(out, raw)
                        /\ Get(out, <<"c", "o", "r", "r", "e", "c", "t", "A", "n", "s", "w", "e", "r">>)
                               = Sanitized(Get(raw, <<"a">>))
                   [] op = "generateStudyNotes" ->
                        /\ Get(out, <<"t", "i", "t", "l", "e">>)
                               = Sanitized(Get(raw, <<"t", "i", "t", "l", "e">>))
                        /\ Get(out, <<"c", "o", "n", "t", "e", "n", "t">>)
                               = Sanitized(Get(raw, <<"c", "o", "n", "t", "e", "n", "t">>))
                   [] op = "generateWrittenQuestions" ->
                        /\ Get(out, <<"s", "u", "b", "j", "e", "c", "t">>)
                               = Sanitized(IF Get(raw, <<"s", "u", "b", "j", "e", "c", "t">>) = Str(<<>>)
                                           THEN Str(General)
                                           ELSE Get(raw, <<"s", "u", "b", "j", "e", "c", "t">>))
                        /\ Get(out, <<"q", "u", "e", "s", "t", "i", "o", "n">>)
                               = Sanitized(Get(raw, <<"q", "u", "e", "s", "t", "i", "o", "n">>))
                        /\ Get(out, <<"a", "n", "s", "w", "e", "r">>)
                               = Sanitized(Get(raw, <<"a", "n", "s", "w", "e", "r">>))

\* the last request resolved with a text from which safeParseJSON recovered
\* no record
EmptyRound ==
    /\ gpc # "await"
    /\ response.t = "string"
    /\ safeParseJSON(response.v) = Return(EmptyArray)

\* C20: a round whose response recovers to zero records raises nothing to the
\* caller of the operation: extractQuestions counts it as a retry and goes on
\* unless it was the third in a row, generateQuestionsFromSlides skips
\* onBatch, generateStudyNotes hands the empty batch to onBatch and resolves,
\* generateWrittenQuestions leaves its loop and resolves.
C20_EmptyRoundNotFatal ==
    EmptyRound =>
        /\ gpc \in {"loop", "done"}
        /\ CASE op = "extractQuestions" ->
                  retryCount >= 1 /\ hasMore = (retryCount < MAX_RETRIES) /\ batch = Undefined
             [] op = "generateQuestionsFromSlides" -> batch = Undefined
             [] op = "generateStudyNotes" -> gpc = "done" /\ batch = EmptyArray
             [] op = "generateWrittenQuestions" -> gpc = "done" /\ ~hasMore /\ batch = Undefined

\* generateStudyNotes resolved after a response that was an object without
\* any array: onBatch got the empty batch
C20_Witness ==
    /\ EmptyRound
    /\ op = "generateStudyNotes"
    /\ response = Str(<<"{", "}">>)
    /\ gpc = "done"
    /\ batch = EmptyArray

----------------------------------------------------------------------------
(* The result of the repair path against the records of the text *)

\* the catch block ran, found a '},' and its second decoding returned elements
RepairReturned ==
    /\ Recovered
    /\ ~StrictOk
    /\ RepairOk
    /\ ret.kind = "return"
    /\ ret.v.t = "array"
    /\ ret.v.v # <<>>

\* the input is an array text whose records are known: intended holds the
\* complete records in order
RecordsKnown == family.name \in {"truncated", "preamble", "preamble_cut", "separator_cut"}

\* the number of records present in the text: the complete ones, and the one
\* the text was cut in
RecordsPresent ==
    Len(intended.v) + (IF family.name \in {"truncated", "preamble_cut"} THEN 1 ELSE 0)

\* the result holds the first records of the text, in order
LeadingRecords ==
    /\ Len(ret.v.v) <= Len(intended.v)
    /\ ret.v.v = SubSeq(intended.v, 1, Len(ret.v.v))

\* something other than whitespace stands behind the last '},' of the text
ElementFollows ==
    LET cleaned == Trim(arg.v)
        last == LastIndexOf(cleaned, <<"}", ",">>)
    IN last # -1 /\ Trim(SubstringFrom(cleaned, last + 2)) # <<>>

\* C29 as stated: whenever safeParseJSON takes the repair path and returns a
\* non-empty result, the result is a proper prefix of the records present in
\* the text: the element behind the last '},' is always dropped.
C29_AlwaysProperPrefix ==
    RepairReturned /\ RecordsKnown =>
        LeadingRecords /\ Len(ret.v.v) < RecordsPresent

\* C29, amended: whenever safeParseJSON takes the repair path and returns a
\* non-empty result, the result is a prefix of the records present in the
\* text; the prefix is proper exactly when an element stands behind the last
\* '},', complete or not, and that element is dropped; a text that ends at
\* the separator gives back every record it holds.
C29_PrefixProperIfElementFollows ==
    RepairReturned /\ RecordsKnown =>
        /\ LeadingRecords
        /\ Len(ret.v.v) < RecordsPresent <=> ElementFollows

\* a complete array of two records behind a preamble: only the first record
\* came back
C29_Witness ==
    /\ RepairReturned
    /\ family.name = "preamble"
    /\ JSONParse(family.tail).ok
    /\ Len(intended.v) = 2
    /\ ret.v.v = <<intended.v[1]>>
    /\ ElementFollows

----------------------------------------------------------------------------
(* Markup that needs no repair *)

\* C30: cleanLatex preserves markup that is already valid: for every input
\* whose backslash sequences are all correctly escaped commands, the ones
\* beginning with backslash-t or backslash-n included, each command stands
\* unchanged, backslash included, in the output.
C30_ValidMarkupPreserved ==
    Cleaned /\ family.name = "valid" =>
        \A i \in 1..Len(intended.v) : IndexOf(ret.v.v, intended.v[i].v) # -1

\* C22: extractQuestions terminates for every sequence of outcomes of its
\* requests (a batch of any size, an empty batch, an error, in any order)
\* even when the signal is never aborted: hasMore becomes false and the loop
\* is left after finitely many rounds.
C22_ExtractTerminates == <>(gpc = "done" /\ hasMore = FALSE)

\* full batches up to the cap of 200 questions ended the loop without any
\* abort
C22_Witness ==
    /\ op = "extractQuestions"
    /\ gpc = "done"
    /\ ~aborted
    /\ hasMore = FALSE
    /\ retryCount = 0
    /\ allQuestions >= MaxQuestions

\* a request of extractQuestions settled in this step
ExtractSettled == op = "extractQuestions" /\ gpc = "await" /\ gpc' = "loop"

\* C23: in extractQuestions retryCount counts the consecutive unproductive
\* rounds (empty batch or error): every non-empty batch resets it to 0, it is
\* below 3 whenever a request is issued, and an unproductive round ends the
\* loop exactly when it is the third in a row.
C23_RetryCountsConsecutive ==
    [][ /\ ExtractSettled /\ batch' # Undefined => retryCount' = 0
        /\ op = "extractQuestions" /\ gpc' = "await" => retryCount' < MAX_RETRIES
        /\ ExtractSettled => retryCount' = streak'
        /\ ExtractSettled /\ batch' = Undefined =>
              (hasMore' = FALSE <=> streak' = MAX_RETRIES) ]_vars

\* a batch had arrived, then three rounds in a row were unproductive and
\* the loop ended
C23_Witness ==
    /\ op = "extractQuestions"
    /\ allQuestions > 0
    /\ streak = MAX_RETRIES
    /\ retryCount = MAX_RETRIES
    /\ hasMore = FALSE
    /\ gpc = "loop"

\* onBatch is called in this step
OnBatchCalled == gpc = "await" /\ gpc' # "await" /\ batch' # Undefined

\* C24: once the signal passed to a generation operation is aborted, the
\* operation never calls onBatch again, not even for the request that was
\* pending when the signal was aborted.
C24_NoBatchAfterAbort == [][aborted => ~OnBatchCalled]_vars

----------------------------------------------------------------------------
(* Properties of the tutor chat *)

\* C28: in the tutor chat, whenever no response stream is in progress
\* (isLoading is false) no message of the list is marked isStreaming, after
\* any sequence of sends, chunks, stream ends and stream errors.
C28_NoStreamingWhenIdle ==
    ~isLoading => \A i \in 1..Len(messages) : ~messages[i].isStreaming

----------------------------------------------------------------------------
(* Properties of the application *)

\* the ids of a list are pairwise different
UniqueIds(list) ==
    \A i \in 1..Len(list) : \A j \in 1..Len(list) : i # j => list[i].id # list[j].id

\* C21: the identifier assigned to each decoded record is unique: across all
\* batches of all files of an upload, no two records held in the questions,
\* notes or writtenQuestions list have the same id.
C21_IdsUnique == UniqueIds(questions) /\ UniqueIds(notes) /\ UniqueIds(writtenQuestions)

\* every record of the list was appended by the callback of the newest upload
FromNewestUpload(list) == \A i \in 1..Len(list) : list[i].upload = Len(uploads)

\* C25: after handleFileUpload starts a new upload, the questions, notes and
\* writtenQuestions lists only ever hold records produced by that newest
\* upload: no batch of a superseded upload that was left running in the
\* background is appended afterwards.
C25_OnlyNewestUpload ==
    FromNewestUpload(questions) /\ FromNewestUpload(notes) /\ FromNewestUpload(writtenQuestions)

\* C26: in every reachable state of the app, whenever step is SETUP or EXAM
\* the questions list is non-empty, and in EXAM 0 <= currentQIndex <
\* questions.length, under any interleaving of uploads, background batches,
\* upload completions and navigation clicks.
C26_QuestionsBehindExam ==
    /\ step \in {"SETUP", "EXAM"} => Len(questions) > 0
    /\ step = "EXAM" => 0 <= currentQIndex /\ currentQIndex < Len(questions)

\* startExam runs in this step
ExamStarts == step \in {"SETUP", "RESULTS"} /\ step' = "EXAM"

\* C27: once handleAnswerSelect has recorded an answer for a question, every
\* later handleAnswerSelect call for the same question id, with any option,
\* leaves userAnswers and answerTimes unchanged, until startExam resets them.
C27_AnswerLocked ==
    [][ ~ExamStarts =>
          \A qId \in DOMAIN userAnswers :
              /\ qId \in DOMAIN userAnswers'
              /\ userAnswers'[qId] = userAnswers[qId]
              /\ answerTimes'[qId] = answerTimes[qId] ]_vars

====
